---- MODULE Spec2Model ----
(***************************************************************************)
(* Sequential tool-calling orchestration of backend/ai_generator.py        *)
(* (AIGenerator.generate_response and its helpers).                        *)
(*                                                                         *)
(* Python strings are modelled as sequences of string tokens, so that an   *)
(* f-string is the concatenation (\o) of its pieces and the empty string   *)
(* is <<>>.  Optional arguments are tagged values: [t |-> "None"],         *)
(* [t |-> "str", v |-> ...], [t |-> "list", v |-> ...], [t |-> "object"].  *)
(* A keyword argument that is omitted from a call is absent from the       *)
(* DOMAIN of the parameter record.                                         *)
(*                                                                         *)
(* The language model and the tools are external: a model call either      *)
(* raises or returns any stop reason with any list of content blocks (text *)
(* blocks only when the call offered no tools: the model cannot invoke a   *)
(* tool it was not given); a tool execution either returns a text or       *)
(* raises.  The texts and the call ids they produce are fresh symbols      *)
(* (they name the call and the block that produced them), so two different *)
(* replies never carry the same text.                                      *)
(***************************************************************************)
EXTENDS Integers, Sequences, FiniteSets, TLC

\* ---------------------------------------------------------------- bounds
MaxRounds == 2
MaxBlocks == 2
MaxDocs == 2
MaxRegisters == 3
MaxQueries == 2
MaxLessons == 3

\* ------------------------------------------------------- program constants
SYSTEM_PROMPT == <<"SYSTEM_PROMPT">>
HistorySuffix == <<"\n\nPrevious conversation:\n">>
Apology == <<"I apologize, but I was unable to complete your request.">>
Model == <<"MODEL">>
Temperature == 0
MaxTokens == 800

\* ------------------------------------------------------------ environment
StopReasons == {"tool_use", "end_turn"}
ToolNames == {"search_course_content"}
BlockKinds == {"text"} \cup ToolNames
ToolOutcomes == {"ok", "raise"}
ApiErrors == {"RateLimitError", "AuthenticationError"}
ExcMessages == {<<"Tool failed">>}

NoneValue == [t |-> "None"]
Str(s) == [t |-> "str", v |-> s]
List(l) == [t |-> "list", v |-> l]
IntVal(n) == [t |-> "int", v |-> n]
ToolManagerObject == [t |-> "object"]

ToolDefinitions ==
  << [name |-> <<"search_course_content">>],
     [name |-> <<"get_course_outline">>] >>

Histories == {NoneValue, Str(<<>>), Str(<<"User: hi">>)}
\* the histories of the generate calls that differ in their system content
SampleHistories == {NoneValue, Str(<<"User: hi">>)}
ToolsArgs == {NoneValue, List(<<>>), List(ToolDefinitions)}
ToolManagerArgs == {NoneValue, ToolManagerObject}

\* Python truthiness of an optional argument
Truthy(x) ==
  CASE x.t = "None" -> FALSE
    [] x.t \in {"str", "list"} -> x.v # <<>>
    [] x.t = "int" -> x.v # 0
    [] OTHER -> TRUE

\* a content block of the reply to model call number n, at position i
Block(kind, n, i) ==
  IF kind = "text"
    THEN [type |-> "text", text |-> <<"text", ToString(n), ToString(i)>>]
    ELSE [type |-> "tool_use",
          id |-> <<"toolu", ToString(n), ToString(i)>>,
          name |-> <<kind>>]

\* every reply the model can give to call number n; kinds are the kinds of
\* block it can use
Responses(n, kinds) ==
  UNION { { [stop_reason |-> s, content |-> [i \in 1..len |-> Block(k[i], n, i)]] :
              s \in StopReasons, k \in [1..len -> kinds] } :
          len \in 0..MaxBlocks }

VARIABLES
  max_tool_rounds,  \* self.max_tool_rounds
  pc,               \* position inside generate_response
  conversation_history, \* argument conversation_history
  tools,            \* argument tools
  tool_manager,     \* argument tool_manager
  system_content,   \* local system_content
  messages,         \* local messages (the transcript)
  round_num,        \* loop variable round_num
  response,         \* local response (last reply of the loop)
  outcome,          \* "none", "returned" or "raised"
  result,           \* the returned text
  error,            \* the raised exception
  api_calls,        \* client.messages.create calls of this generate call
  executed,         \* tool_manager.execute_tool calls of this generate call
  tool_rounds,      \* tool-execution rounds performed in this generate call
  tm_tools,         \* ToolManager.tools: the ordered dict name -> tool
  last_sources,     \* the last_sources attribute of every tool that has one
  ret,              \* the last call made on a tool or on the ToolManager
  reg_log,          \* the tools passed to register_tool so far, in order
  phase,            \* where the caller of a query stands
  query_no,         \* number of queries started
  slot_query,       \* for every slot, the query during which it was last written
  searched,         \* whether a search tool's execute has been called yet
  callers           \* the callers that share the registry, and what each saw

genVars == << max_tool_rounds, pc, conversation_history, tools, tool_manager,
              system_content,
              messages, round_num, response, outcome, result, error,
              api_calls, executed, tool_rounds >>

toolVars == << tm_tools, last_sources, ret, reg_log, phase, query_no, slot_query,
              searched, callers >>

vars == << genVars, toolVars >>

NoResponse == [stop_reason |-> "", content |-> <<>>]

\* the tools that exist: two CourseSearchTool instances, a CourseOutlineTool
\* and a tool whose definition has no name
SearchTools == {"search_a", "search_b"}
Tools == SearchTools \cup {"outline", "nameless"}

\* the tools that carry a last_sources attribute: the CourseSearchTool
\* instances and a stub tool with a name of its own (a Mock, which has every
\* attribute that is not deleted)
SourceTools == SearchTools \cup {"mock_tool"}

\* the callers (request handlers) that share one registry
Callers == {1, 2}

\* no caller has a query in flight; per caller: where it stands, the number of
\* its query, the sources its own searches recorded, the sources it got from
\* get_last_sources, and whether its query ran with no other query in flight
CallersIdle ==
  [phase |-> [c \in Callers |-> "ready"],
   query |-> [c \in Callers |-> 0],
   recorded |-> [c \in Callers |-> <<>>],
   got |-> [c \in Callers |-> <<>>],
   alone |-> [c \in Callers |-> TRUE]]

\* ToolManager() and the tools after construction: an empty registry, every
\* CourseSearchTool with last_sources = []
ToolInit ==
  /\ tm_tools = <<>>
  /\ last_sources = [t \in SourceTools |-> <<>>]
  /\ ret = [op |-> "none"]
  /\ reg_log = <<>>
  /\ phase = "idle"
  /\ query_no = 0
  /\ slot_query = [t \in SourceTools |-> 0]
  /\ searched = FALSE
  /\ callers = CallersIdle

\* no generate_response call has been made yet
GenerateInit ==
  /\ pc = "idle"
  /\ conversation_history = NoneValue
  /\ tools = NoneValue
  /\ tool_manager = NoneValue
  /\ system_content = <<>>
  /\ messages = <<>>
  /\ round_num = 0
  /\ response = NoResponse
  /\ outcome = "none"
  /\ result = <<>>
  /\ error = ""
  /\ api_calls = <<>>
  /\ executed = <<>>
  /\ tool_rounds = 0

Init ==
  /\ ToolInit
  /\ max_tool_rounds \in 0..MaxRounds
  /\ GenerateInit

\* ------------------------------------------------------------ pure helpers

\* self.base_params
BaseParams == [model |-> Model, temperature |-> Temperature, max_tokens |-> MaxTokens]

\* {**a, **b}
Merge(a, b) ==
  [k \in (DOMAIN a) \cup (DOMAIN b) |-> IF k \in DOMAIN b THEN b[k] ELSE a[k]]

\* slip: the transcript of the previous generate call is kept and extended
InitialMessagesKept(old, query) == Append(old, [role |-> "user", content |-> query])

\* messages = [{"role": "user", "content": query}]
InitialMessages(old, query) == << [role |-> "user", content |-> query] >>

\* slip: the history is appended without the test
SystemContentUnchecked(history) ==
  SYSTEM_PROMPT \o HistorySuffix
  \o (IF history = NoneValue THEN <<"None">> ELSE history.v)

\* system_content = f"{SYSTEM_PROMPT}\n\nPrevious conversation:\n{history}" if history else SYSTEM_PROMPT
SystemContent(history) ==
  IF Truthy(history)
    THEN SYSTEM_PROMPT \o HistorySuffix \o history.v
    ELSE SYSTEM_PROMPT

\* slip: "and" where the code has "or"
NoToolsAvailableAnd(tls, tm) == ~Truthy(tls) /\ ~Truthy(tm)

\* if not tools or not tool_manager
NoToolsAvailable(tls, tm) == ~Truthy(tls) \/ ~Truthy(tm)

\* slip: tool_choice is left out
LoopParamsNoChoice(msgs, sys, tls) ==
  Merge(BaseParams, [messages |-> msgs, system |-> sys, tools |-> tls])

\* api_params of the main loop
LoopParams(msgs, sys, tls) ==
  Merge(BaseParams,
        [messages |-> msgs, system |-> sys, tools |-> tls,
         tool_choice |-> [type |-> "auto"]])

\* the parameters of the single call made when no tools are available
DirectParams(msgs, sys) ==
  Merge(BaseParams, [messages |-> msgs, system |-> sys])

\* slip: tools passed as empty instead of omitted
FinalParamsEmptyTools(msgs, sys) ==
  Merge(BaseParams, [messages |-> msgs, system |-> sys, tools |-> List(<<>>),
                     tool_choice |-> [type |-> "auto"]])

\* slip: the final call is made with the user query alone
FinalParamsQueryOnly(msgs, sys) ==
  Merge(BaseParams, [messages |-> SubSeq(msgs, 1, 1), system |-> sys])

\* final_params of _force_final_synthesis
FinalParams(msgs, sys) ==
  Merge(BaseParams, [messages |-> msgs, system |-> sys])

\* response.content[0].text: IndexError on an empty content list,
\* AttributeError when the first block is not a text block
ExtractText(resp) ==
  IF Len(resp.content) = 0
    THEN [ok |-> FALSE, error |-> "IndexError"]
    ELSE IF resp.content[1].type = "text"
      THEN [ok |-> TRUE, text |-> resp.content[1].text]
      ELSE [ok |-> FALSE, error |-> "AttributeError"]

\* slip: looks for tool_use blocks instead of reading the stop reason
IsToolUseByContent(resp) ==
  \E i \in 1..Len(resp.content) : resp.content[i].type = "tool_use"

\* response.stop_reason != "tool_use" is TERMINATION 1
IsToolUse(resp) == resp.stop_reason = "tool_use"

\* slip: off by one, > where the code has >=
MaxRoundsReachedLate(rnd, max_rounds) == rnd > max_rounds

\* slip: off by one, the last allowed round is cut
MaxRoundsReachedEarly(rnd, max_rounds) == rnd + 1 >= max_rounds

\* slip: TERMINATION 2 is missing
MaxRoundsReachedNever(rnd, max_rounds) == FALSE

\* round_num >= self.max_tool_rounds is TERMINATION 2
MaxRoundsReached(rnd, max_rounds) == rnd >= max_rounds

\* slip: the loop variable is not advanced
NextRoundSame(rnd) == rnd

\* the next value of the for loop over range(self.max_tool_rounds + 1)
NextRound(rnd) == rnd + 1

\* slip: the error flag is ignored and the loop goes on
ErrorIgnored(had_error) == FALSE

\* if had_error is TERMINATION 3
ErrorTerminates(had_error) == had_error

\* what the tool returns for a successful invocation of block
ToolOutput(block) == <<"output of">> \o block.name \o block.id

\* the tool_result appended after a successful execute_tool
SuccessResult(block) ==
  [type |-> "tool_result", tool_use_id |-> block.id, content |-> ToolOutput(block)]

\* slip: the error result is not flagged
ErrorResultUnflagged(block, msg) ==
  [type |-> "tool_result", tool_use_id |-> block.id,
   content |-> <<"Error executing ">> \o block.name \o <<": ">> \o msg]

\* the tool_result appended in the except branch
ErrorResult(block, msg) ==
  [type |-> "tool_result", tool_use_id |-> block.id,
   content |-> <<"Error executing ">> \o block.name \o <<": ">> \o msg,
   is_error |-> TRUE]

\* _execute_tools_from_response: the for loop from block i on, with the
\* accumulated tool_results, had_error and execute_tool calls in acc;
\* o[i] is what the tool does for block i and msg is the text of the exception
RECURSIVE ExecuteBlocks(_, _, _, _, _)
ExecuteBlocks(content, o, msg, i, acc) ==
  IF i > Len(content) THEN acc
  ELSE IF content[i].type # "tool_use"
    THEN ExecuteBlocks(content, o, msg, i + 1, acc)
    ELSE LET call == [tool_use_id |-> content[i].id, name |-> content[i].name,
                      raised |-> (o[i] = "raise"), msg |-> msg]
         IN IF o[i] = "ok"
              THEN ExecuteBlocks(content, o, msg, i + 1,
                     [tool_results |-> Append(acc.tool_results, SuccessResult(content[i])),
                      had_error |-> acc.had_error,
                      calls |-> Append(acc.calls, call)])
              ELSE ExecuteBlocks(content, o, msg, i + 1,
                     [tool_results |-> Append(acc.tool_results, ErrorResult(content[i], msg)),
                      had_error |-> TRUE,
                      calls |-> Append(acc.calls, call)])

\* slip: the first tool that raises ends the for loop
ExecuteToolsStopAtError(resp, o, msg) ==
  LET x == ExecuteBlocks(resp.content, o, msg, 1,
                         [tool_results |-> <<>>, had_error |-> FALSE, calls |-> <<>>])
      failed == { j \in DOMAIN x.calls : x.calls[j].raised }
  IN IF failed = {} THEN x
     ELSE LET first == CHOOSE j \in failed : \A k \in failed : j <= k
          IN [tool_results |-> SubSeq(x.tool_results, 1, first),
              had_error |-> TRUE,
              calls |-> SubSeq(x.calls, 1, first)]

ExecuteToolsFromResponse(resp, o, msg) ==
  ExecuteBlocks(resp.content, o, msg, 1,
                [tool_results |-> <<>>, had_error |-> FALSE, calls |-> <<>>])

\* slip: the exception is swallowed and the apology returned
ApiFailureSwallowed(err) == [outcome |-> "returned", result |-> Apology, error |-> ""]

\* a model call that raised: the exception leaves generate_response
ApiFailure(err) == [outcome |-> "raised", result |-> <<>>, error |-> err]

\* return <text>, where the extraction itself may raise
ReturnText(x) ==
  IF x.ok THEN [outcome |-> "returned", result |-> x.text, error |-> ""]
          ELSE [outcome |-> "raised", result |-> <<>>, error |-> x.error]

\* the record of one client.messages.create call
ApiCall(params, forced) ==
  [params |-> params, forced |-> forced, round |-> round_num,
   rounds_done |-> tool_rounds]

Answered(c, resp) == Merge(c, [raised |-> FALSE, response |-> resp])
Failed(c, err) == Merge(c, [raised |-> TRUE, error |-> err])

\* ------------------------------------------------------------------ actions

Finish(f) ==
  /\ pc' = "done"
  /\ outcome' = f.outcome
  /\ result' = f.result
  /\ error' = f.error

\* generate_response is entered with a conversation_history of H, tools of T
\* and a tool_manager of M: system_content and messages are built and the
\* no-tools test is made
GenerateWith(H, T, M) ==
  /\ pc = "idle"
  /\ \E h \in H, tls \in T, tm \in M :
       /\ conversation_history' = h
       /\ tools' = tls
       /\ tool_manager' = tm
       /\ system_content' = SystemContent(h)
       /\ pc' = IF NoToolsAvailable(tls, tm) THEN "direct" ELSE "loop"
  /\ messages' = InitialMessages(messages, <<"query">>)
  /\ round_num' = 0
  /\ response' = NoResponse
  /\ outcome' = "none"
  /\ result' = <<>>
  /\ error' = ""
  /\ api_calls' = <<>>
  /\ executed' = <<>>
  /\ tool_rounds' = 0
  /\ UNCHANGED max_tool_rounds

GenerateStart ==
  /\ GenerateWith(SampleHistories, ToolsArgs, ToolManagerArgs)
  /\ UNCHANGED toolVars

\* the single call of the no-tools branch and return response.content[0].text
DirectCall ==
  /\ pc = "direct"
  /\ LET c == ApiCall(DirectParams(messages, system_content), FALSE)
     IN \/ \E e \in ApiErrors :
             /\ api_calls' = Append(api_calls, Failed(c, e))
             /\ Finish(ApiFailure(e))
             /\ UNCHANGED response
        \/ \E r \in Responses(Len(api_calls) + 1, {"text"}) :
             /\ api_calls' = Append(api_calls, Answered(c, r))
             /\ response' = r
             /\ Finish(ReturnText(ExtractText(r)))
  /\ UNCHANGED toolVars
  /\ UNCHANGED << max_tool_rounds, conversation_history, tools, tool_manager,
                  system_content,
                  messages, round_num, executed, tool_rounds >>

\* one iteration of the main loop up to the tool execution: the model call
\* with tools, the append of the assistant message, TERMINATION 1 and 2
LoopCallWith(kinds) ==
  /\ pc = "loop"
  /\ round_num < max_tool_rounds + 1
  /\ LET c == ApiCall(LoopParams(messages, system_content, tools), FALSE)
     IN \/ \E e \in ApiErrors :
             /\ api_calls' = Append(api_calls, Failed(c, e))
             /\ Finish(ApiFailure(e))
             /\ UNCHANGED << response, messages >>
        \/ \E r \in Responses(Len(api_calls) + 1, kinds) :
             /\ api_calls' = Append(api_calls, Answered(c, r))
             /\ response' = r
             /\ messages' = Append(messages, [role |-> "assistant", content |-> r.content])
             /\ IF ~IsToolUse(r)
                  THEN Finish(ReturnText(ExtractText(r)))
                  ELSE /\ pc' = IF MaxRoundsReached(round_num, max_tool_rounds)
                                  THEN "synth" ELSE "exec"
                       /\ UNCHANGED << outcome, result, error >>
  /\ UNCHANGED << max_tool_rounds, conversation_history, tools, tool_manager,
                  system_content,
                  round_num, executed, tool_rounds >>

\* the iteration when the model names the tools of a mock tool manager
LoopCall ==
  /\ LoopCallWith(BlockKinds)
  /\ UNCHANGED toolVars

\* _execute_tools_from_response, the append of the tool results and
\* TERMINATION 3
ExecuteTools ==
  /\ pc = "exec"
  /\ \E o \in [1..Len(response.content) -> ToolOutcomes], msg \in ExcMessages :
       LET x == ExecuteToolsFromResponse(response, o, msg)
       IN /\ messages' = Append(messages, [role |-> "user", content |-> x.tool_results])
          /\ executed' = executed \o
               [j \in 1..Len(x.calls) |-> Merge(x.calls[j], [after_call |-> Len(api_calls)])]
          /\ IF ErrorTerminates(x.had_error)
               THEN pc' = "synth" /\ round_num' = round_num
               ELSE pc' = "loop" /\ round_num' = NextRound(round_num)
  /\ tool_rounds' = tool_rounds + 1
  /\ UNCHANGED toolVars
  /\ UNCHANGED << max_tool_rounds, conversation_history, tools, tool_manager,
                  system_content,
                  response, outcome, result, error, api_calls >>

\* _force_final_synthesis and the return of its text
ForceFinalSynthesis ==
  /\ pc = "synth"
  /\ LET c == ApiCall(FinalParams(messages, system_content), TRUE)
     IN \/ \E e \in ApiErrors :
             /\ api_calls' = Append(api_calls, Failed(c, e))
             /\ Finish(ApiFailure(e))
        \/ \E r \in Responses(Len(api_calls) + 1, {"text"}) :
             /\ api_calls' = Append(api_calls, Answered(c, r))
             /\ Finish(ReturnText(ExtractText(r)))
  /\ UNCHANGED toolVars
  /\ UNCHANGED << max_tool_rounds, conversation_history, tools, tool_manager,
                  system_content,
                  messages, round_num, response, executed, tool_rounds >>

\* the loop is exhausted: return the fixed apology
FallThrough ==
  /\ pc = "loop"
  /\ ~(round_num < max_tool_rounds + 1)
  /\ Finish([outcome |-> "returned", result |-> Apology, error |-> ""])
  /\ UNCHANGED toolVars
  /\ UNCHANGED << max_tool_rounds, conversation_history, tools, tool_manager,
                  system_content,
                  messages, round_num, response, api_calls, executed, tool_rounds >>

Next ==
  \/ GenerateStart
  \/ DirectCall
  \/ LoopCall
  \/ ExecuteTools
  \/ ForceFinalSynthesis

Spec == Init /\ [][Next]_vars

\* AIGenerator(api_key, model, max_tool_rounds=1): one tool round allowed
OneToolRound == 1

\* generate calls with every kind of history: none, empty and not empty

GenerateWithHistory ==
  /\ GenerateWith(Histories, ToolsArgs, ToolManagerArgs)
  /\ UNCHANGED toolVars

InitPrompt ==
  /\ ToolInit
  /\ max_tool_rounds = OneToolRound
  /\ GenerateInit

NextPrompt ==
  \/ GenerateWithHistory
  \/ DirectCall
  \/ LoopCall
  \/ ExecuteTools
  \/ ForceFinalSynthesis

SpecPrompt == InitPrompt /\ [][NextPrompt]_vars

\* the configured values of max_tool_rounds: __init__ stores any int
MinRounds == 0 - 1

\* generate calls without conversation history, for every configured
\* max_tool_rounds
GenerateNoHistory ==
  /\ GenerateWith({NoneValue}, ToolsArgs, ToolManagerArgs)
  /\ UNCHANGED toolVars

InitRounds ==
  /\ ToolInit
  /\ max_tool_rounds \in MinRounds..MaxRounds
  /\ GenerateInit

NextRounds ==
  \/ GenerateNoHistory
  \/ DirectCall
  \/ LoopCall
  \/ ExecuteTools
  \/ ForceFinalSynthesis
  \/ FallThrough

SpecRounds == InitRounds /\ [][NextRounds]_vars

\* one AIGenerator serving several generate calls in a row

\* generate_response is called, for the first time or after a call that ended
GenerateNext ==
  /\ query_no < MaxQueries
  /\ query_no' = query_no + 1
  /\ GenerateWith({NoneValue}, ToolsArgs, ToolManagerArgs)
  /\ UNCHANGED << tm_tools, last_sources, ret, reg_log, phase, slot_query, searched,
                  callers >>

\* generate_response has returned or raised: the caller has the outcome
GenerateEnds ==
  /\ pc = "done"
  /\ pc' = "idle"
  /\ UNCHANGED << max_tool_rounds, conversation_history, tools, tool_manager,
                  system_content, messages, round_num, response, outcome, result,
                  error, api_calls, executed, tool_rounds >>
  /\ UNCHANGED toolVars

InitSession ==
  /\ ToolInit
  /\ max_tool_rounds = OneToolRound
  /\ GenerateInit

NextSession ==
  \/ GenerateNext
  \/ GenerateEnds
  \/ DirectCall
  \/ LoopCall
  \/ ExecuteTools
  \/ ForceFinalSynthesis

SpecSession == InitSession /\ [][NextSession]_vars

\* a step of a running generate call: a model call or a tool round
GenerateStep ==
  \/ DirectCall
  \/ LoopCall
  \/ ExecuteTools
  \/ ForceFinalSynthesis

\* max_tool_rounds: int = 2, the default of the constructor
DefaultToolRounds == 2

\* generators built with the default number of tool rounds or fewer
InitTerminates ==
  /\ ToolInit
  /\ max_tool_rounds \in 0..DefaultToolRounds
  /\ GenerateInit

NextTerminates ==
  \/ GenerateNoHistory
  \/ GenerateStep

\* every model call and every tool execution returns or raises: a step of a
\* running generate call that can be taken is eventually taken
SpecTerminates == InitTerminates /\ [][NextTerminates]_vars /\ WF_vars(GenerateStep)

\* ------------------------------------------------- search tool: environment

\* the keyword arguments of CourseSearchTool.execute
SearchKwargs ==
  { [query |-> <<"query">>, course_name |-> c, lesson_number |-> l] :
      c \in {NoneValue, Str(<<"MCP">>), Str(<<"NonExistent">>)},
      l \in {NoneValue, IntVal(0), IntVal(1)} }

\* the metadata of a stored chunk; a chunk need not carry a lesson_number
Metas ==
  { [course_title |-> <<"MCP">>, lesson_number |-> IntVal(0)],
    [course_title |-> <<"MCP">>, lesson_number |-> IntVal(1)],
    [course_title |-> <<"RAG">>] }

\* the store's links: course MCP has a course link and a link for lesson 1
\* only, course RAG has no link at all
GetLessonLink(course_title, lesson_num) ==
  IF course_title = <<"MCP">> /\ lesson_num = 1
    THEN Str(<<"https://mcp/lesson/1">>)
    ELSE NoneValue

GetCourseLink(course_title) ==
  IF course_title = <<"MCP">> THEN Str(<<"https://mcp">>) ELSE NoneValue

SearchErrors == {NoneValue, Str(<<"Search error: ", "connection failed">>)}

\* the chunk meta passes the filter the store builds from the arguments kw
MatchesFilter(meta, kw) ==
  /\ kw.course_name # NoneValue => meta.course_title = kw.course_name.v
  /\ kw.lesson_number # NoneValue =>
       /\ "lesson_number" \in DOMAIN meta
       /\ meta.lesson_number = kw.lesson_number

\* SearchResults(documents, metadata, error) the store returns for kw
SearchResultsSet(kw) ==
  UNION { { [documents |-> [i \in 1..n |-> <<"doc", ToString(i)>>],
             metadata |-> m, error |-> e] :
              m \in [1..n -> {x \in Metas : MatchesFilter(x, kw)}],
              e \in SearchErrors } :
          n \in 0..MaxDocs }

\* VectorStore.search when the course filter resolves to no course
UnresolvedCourse(kw) ==
  [documents |-> <<>>, metadata |-> <<>>,
   error |-> Str(<<"No course found matching", " '">> \o kw.course_name.v \o <<"'">>)]

\* what store.search can do for the arguments kw: raise, fail to resolve a
\* course filter that names no stored course, or return a SearchResults
BackendOutcomes(kw) ==
  { [kind |-> "raise"] }
  \cup (IF Truthy(kw.course_name)
           /\ kw.course_name.v \notin { m.course_title : m \in Metas }
          THEN { [kind |-> "unresolved", results |-> UnresolvedCourse(kw)] }
          ELSE {})
  \cup { [kind |-> "results", results |-> r] : r \in SearchResultsSet(kw) }

\* ------------------------------------------------ search tool: pure helpers

\* d.get(key, default)
DictGet(d, key, default) == IF key \in DOMAIN d THEN d[key] ELSE default

\* sep.join(list)
RECURSIVE Join(_, _)
Join(list, sep) ==
  IF Len(list) = 0 THEN <<>>
  ELSE IF Len(list) = 1 THEN list[1]
  ELSE list[1] \o sep \o Join(Tail(list), sep)

\* SearchResults.is_empty()
IsEmpty(results) == Len(results.documents) = 0

\* slip: the error is honoured only when there are no documents
HasErrorWhenEmpty(results) == Truthy(results.error) /\ Len(results.documents) = 0

\* if results.error
HasError(results) == Truthy(results.error)

\* the filter_info of the empty-result message
EmptyMessage(kw) ==
  <<"No relevant content found">>
  \o (IF Truthy(kw.course_name)
        THEN <<" in course '">> \o kw.course_name.v \o <<"'">> ELSE <<>>)
  \o (IF Truthy(kw.lesson_number)
        THEN <<" in lesson ", ToString(kw.lesson_number.v)>> ELSE <<>>)
  \o <<".">>

\* slip: truthiness where the code has "is not None"
LessonGivenTruthy(lesson_num) == Truthy(lesson_num)

\* lesson_num is not None
LessonGiven(lesson_num) == lesson_num # NoneValue

\* the " - Lesson <n>" suffix of the header and of the source text
LessonSuffix(lesson_num) ==
  IF LessonGiven(lesson_num) THEN <<" - Lesson ", ToString(lesson_num.v)>> ELSE <<>>

\* the url of a source: the lesson link, else the course link
SourceUrl(course_title, lesson_num) ==
  LET url == IF LessonGiven(lesson_num)
               THEN GetLessonLink(course_title, lesson_num.v)
               ELSE NoneValue
  IN IF ~Truthy(url) THEN GetCourseLink(course_title) ELSE url

\* the body of the loop of _format_results from pair i on; acc holds
\* formatted and self.last_sources
RECURSIVE FormatLoop(_, _, _)
FormatLoop(results, i, acc) ==
  IF i > Len(results.documents) \/ i > Len(results.metadata) THEN acc
  ELSE LET meta == results.metadata[i]
           course_title == DictGet(meta, "course_title", <<"unknown">>)
           lesson_num == DictGet(meta, "lesson_number", NoneValue)
           header == <<"[">> \o course_title \o LessonSuffix(lesson_num) \o <<"]">>
           source_text == course_title \o LessonSuffix(lesson_num)
           url == SourceUrl(course_title, lesson_num)
       IN FormatLoop(results, i + 1,
            [formatted |-> Append(acc.formatted, header \o <<"\n">> \o results.documents[i]),
             sources |-> Append(acc.sources, [text |-> source_text, url |-> url])])

\* _format_results: the text returned and the new last_sources
FormatResults(results) ==
  LET x == FormatLoop(results, 1, [formatted |-> <<>>, sources |-> <<>>])
  IN [text |-> Join(x.formatted, <<"\n\n">>), sources |-> x.sources, wrote |-> TRUE]

\* CourseSearchTool.execute after store.search returned results: the text
\* returned and last_sources afterwards, given last_sources before
SearchExecute(sources, kw, results) ==
  IF HasError(results)
    THEN [text |-> results.error.v, sources |-> sources, wrote |-> FALSE]
  ELSE IF IsEmpty(results)
    THEN [text |-> EmptyMessage(kw), sources |-> sources, wrote |-> FALSE]
  ELSE FormatResults(results)

\* the record of one execute call on search tool t
Executed(t, kw, b, x) ==
  [tool |-> t, kwargs |-> kw, backend |-> b.kind, results |-> b.results,
   raised |-> FALSE, text |-> x.text, wrote |-> x.wrote]

ExecuteRaised(t, kw) ==
  [tool |-> t, kwargs |-> kw, backend |-> "raise", raised |-> TRUE]

\* ------------------------------------------------------ search tool: action

\* all keyword arguments with everything the store can do for them
SearchInputs ==
  UNION { { <<kw, b>> : b \in BackendOutcomes(kw) } : kw \in SearchKwargs }

\* tool.execute(**kw) on the CourseSearchTool t; op names the call in ret
RunSearch(op, t, kw, b) ==
  IF b.kind = "raise"
    THEN /\ ret' = Merge(op, ExecuteRaised(t, kw))
         /\ searched' = TRUE
         /\ UNCHANGED << last_sources, slot_query >>
    ELSE LET x == SearchExecute(last_sources[t], kw, b.results)
         IN /\ ret' = Merge(op, Executed(t, kw, b, x))
            /\ searched' = TRUE
            /\ last_sources' = [last_sources EXCEPT ![t] = x.sources]
            /\ slot_query' =
                 IF x.wrote THEN [slot_query EXCEPT ![t] = query_no] ELSE slot_query

\* CourseSearchTool.execute called on the tool itself
SearchDirect ==
  /\ \E in \in SearchInputs :
       RunSearch([op |-> "execute"], "search_a", in[1], in[2])
  /\ UNCHANGED << tm_tools, reg_log, phase, query_no, callers >>
  /\ UNCHANGED genVars

InitSearch == Init /\ max_tool_rounds = MaxRounds

NextSearch == SearchDirect

SpecSearch == InitSearch /\ [][NextSearch]_vars

\* ------------------------------------------------------------ outline tool

OutlineKwargs == { [course_name |-> c] : c \in {NoneValue, Str(<<"MCP">>)} }

\* the stored lessons of a course, as json.loads(lessons_json) yields them
Lessons ==
  << [lesson_number |-> 1, lesson_title |-> <<"Tools">>],
     [lesson_number |-> 0, lesson_title |-> <<"Intro">>] >>

\* what the store holds when the outline tool runs with the arguments kw
OutlineStores(kw) ==
  IF ~Truthy(kw.course_name)
    THEN { [all_courses |-> <<>>],
           [all_courses |-> << [title |-> <<"MCP">>, lesson_count |-> 2] >>] }
    ELSE { [resolved |-> NoneValue] }
         \cup { [resolved |-> Str(<<"MCP">>), catalog |-> c] :
                  c \in {"raises", "no metadatas", "no lessons_json",
                         "malformed lessons_json", "lessons_json not a list"} }
         \cup { [resolved |-> Str(<<"MCP">>), catalog |-> "lessons",
                 lessons |-> Lessons] }

\* the lesson with number n
Lesson(n) == [lesson_number |-> n, lesson_title |-> <<"Lesson", ToString(n)>>]

\* the orders in which up to MaxLessons lessons numbered from 0 can be stored
LessonLists ==
  UNION { { [i \in 1..len |-> Lesson(f[i])] :
              f \in { g \in [1..len -> 0..(MaxLessons - 1)] :
                        \A i, j \in 1..len : i # j => g[i] # g[j] } } :
          len \in 1..MaxLessons }

\* the stores of a course that is resolved and whose lessons decode
OrderedStores(kw) ==
  IF ~Truthy(kw.course_name)
    THEN OutlineStores(kw)
    ELSE { [resolved |-> NoneValue] }
         \cup { [resolved |-> Str(<<"MCP">>), catalog |-> "lessons", lessons |-> l] :
                  l \in LessonLists }

\* lessons.sort(key=lambda x: x.get('lesson_number', 0)): a stable sort
RECURSIVE InsertLesson(_, _)
InsertLesson(sorted, lesson) ==
  IF sorted = <<>> THEN << lesson >>
  ELSE IF lesson.lesson_number < Head(sorted).lesson_number
    THEN << lesson >> \o sorted
    ELSE << Head(sorted) >> \o InsertLesson(Tail(sorted), lesson)

RECURSIVE SortLessons(_)
SortLessons(lessons) ==
  IF lessons = <<>> THEN <<>>
  ELSE InsertLesson(SortLessons(SubSeq(lessons, 1, Len(lessons) - 1)),
                    lessons[Len(lessons)])

\* slip: the lessons are rendered in their stored order
StoredOrder(lessons) == lessons

\* lessons.sort(key=lambda x: x.get('lesson_number', 0))
SortByLessonNumber(lessons) == SortLessons(lessons)

\* the calls execute makes on the store
OutlineStoreCalls(kw, store) ==
  IF ~Truthy(kw.course_name) THEN <<"get_all_courses_metadata">>
  ELSE IF ~Truthy(store.resolved) THEN <<"_resolve_course_name">>
  ELSE <<"_resolve_course_name", "course_catalog.get">>

\* return <text>
OutlineReturns(text) == [raised |-> FALSE, text |-> text]

\* slip: no try/except around the catalog lookup and the decoding
OutlinePropagates(msg) == [raised |-> TRUE, error |-> msg]

\* except Exception as e: return f"Error retrieving course outline: {str(e)}"
OutlineCaught(msg) ==
  [raised |-> FALSE, text |-> <<"Error retrieving course outline: ">> \o msg]

\* CourseOutlineTool.execute: the text returned, or the exception raised
OutlineOutcome(kw, store) ==
  IF ~Truthy(kw.course_name)
    THEN IF store.all_courses = <<>>
           THEN OutlineReturns(<<"No courses found in the catalog.">>)
           ELSE OutlineReturns(
                  Join(<< <<"Available courses:">> >>
                       \o [i \in DOMAIN store.all_courses |->
                             <<"- ">> \o store.all_courses[i].title
                             \o <<" (", ToString(store.all_courses[i].lesson_count),
                                  " lessons)">>],
                       <<"\n">>))
  ELSE IF ~Truthy(store.resolved)
    THEN OutlineReturns(<<"No course found matching '">> \o kw.course_name.v \o <<"'.">>)
  ELSE LET head == << <<"Course: ">> \o store.resolved.v,
                      <<"Link: ", "https://mcp">>, <<>> >>
           sorted == SortByLessonNumber(store.lessons)
       IN CASE store.catalog = "raises" ->
                 OutlineCaught(<<"catalog failed">>)
            [] store.catalog = "no metadatas" ->
                 OutlineReturns(<<"Course data not found for '">>
                                \o store.resolved.v \o <<"'.">>)
            [] store.catalog = "malformed lessons_json" ->
                 OutlineCaught(<<"Expecting value">>)
            [] store.catalog = "lessons_json not a list" ->
                 OutlineCaught(<<"'dict' object has no attribute 'sort'">>)
            [] store.catalog = "no lessons_json" ->
                 OutlineReturns(
                   Join(Append(head, <<"No lesson information available.">>), <<"\n">>))
            [] store.catalog = "lessons" ->
                 OutlineReturns(
                   Join(head \o << <<"Lessons:">> >>
                        \o [i \in DOMAIN sorted |->
                              <<ToString(sorted[i].lesson_number), ". ">>
                              \o sorted[i].lesson_title],
                        <<"\n">>))

\* CourseOutlineTool.execute with the calls it made on the store
OutlineExecute(kw, store) ==
  Merge(OutlineOutcome(kw, store), [store_calls |-> OutlineStoreCalls(kw, store)])

\* ------------------------------------------------------------- ToolManager

\* Tool.get_tool_definition of the tools: two CourseSearchTool instances,
\* a CourseOutlineTool and a tool whose definition carries no name
GetToolDefinition(t) ==
  CASE t \in SearchTools ->
         [name |-> Str(<<"search_course_content">>),
          description |-> <<"Search course materials">>,
          input_schema |-> [type |-> "object", required |-> <<"query">>]]
    [] t = "outline" ->
         [name |-> Str(<<"get_course_outline">>),
          description |-> <<"Get course structure">>,
          input_schema |-> [type |-> "object"]]
    [] t = "mock_tool" ->
         [name |-> Str(<<"mock_tool">>),
          description |-> <<"Mock tool">>,
          input_schema |-> [type |-> "object"]]
    [] t = "emptyname" ->
         [name |-> Str(<<>>),
          description |-> <<"A tool with an empty name">>,
          input_schema |-> [type |-> "object"]]
    [] t = "nameless" ->
         [description |-> <<"A tool without a name">>,
          input_schema |-> [type |-> "object"]]

\* the names execute_tool is called with
ExecNames == { <<"search_course_content">>, <<"get_course_outline">>,
               <<"nonexistent_tool">> }

\* the keys of the dict d, kept as the sequence of its (name, tool) items
Keys(d) == { d[i].name : i \in DOMAIN d }

\* d[name]
Lookup(d, name) == d[CHOOSE i \in DOMAIN d : d[i].name = name].tool

\* slip: a colliding registration is ignored
DictSetFirstWins(d, name, tool) ==
  IF name \in Keys(d) THEN d ELSE Append(d, [name |-> name, tool |-> tool])

\* slip: a colliding registration moves the name to the end
DictSetMovesToEnd(d, name, tool) ==
  Append(SelectSeq(d, LAMBDA e : e.name # name), [name |-> name, tool |-> tool])

\* d[name] = tool: an existing key keeps its position
DictSet(d, name, tool) ==
  IF name \in Keys(d)
    THEN [i \in DOMAIN d |->
            IF d[i].name = name THEN [name |-> name, tool |-> tool] ELSE d[i]]
    ELSE Append(d, [name |-> name, tool |-> tool])

\* slip: another wording of the miss
NotFoundTextUnknown(tool_name) == <<"Unknown tool '">> \o tool_name \o <<"'">>

\* f"Tool '{tool_name}' not found"
NotFoundText(tool_name) == <<"Tool '">> \o tool_name \o <<"' ", "not found">>

\* hasattr(tool, 'last_sources')
HasLastSources(t) == t \in SourceTools

\* slip: the emptiness test of get_last_sources is missing
SlotFilledAlways(sources) == TRUE

\* `and tool.last_sources`: the list is not empty
SlotFilled(sources) == sources # <<>>

\* the first non-empty last_sources among d.values() from position i on
RECURSIVE FirstSources(_, _, _)
FirstSources(d, slots, i) ==
  IF i > Len(d) THEN <<>>
  ELSE IF HasLastSources(d[i].tool) /\ SlotFilled(slots[d[i].tool])
    THEN slots[d[i].tool]
    ELSE FirstSources(d, slots, i + 1)

\* slip: reset_sources leaves the list as it is
ClearedKeeps(sources) == sources

\* tool.last_sources = []
Cleared(sources) == <<>>

\* slip: reset_sources skips every tool
TracksSourcesNever(t) == FALSE

\* the hasattr test of reset_sources
TracksSources(t) == HasLastSources(t)

\* slip: reset_sources does nothing
SlotsUntouched(d, slots) == slots

\* the slots after reset_sources ran over d.values()
SlotsAfterReset(d, slots) ==
  [t \in DOMAIN slots |->
     IF TracksSources(t) /\ \E i \in DOMAIN d : d[i].tool = t
       THEN Cleared(slots[t]) ELSE slots[t]]

\* the searches a registry is exercised with: no filter, a failing store, an
\* error reported next to a document, and 0..MaxDocs matched chunks
FixtureInputs ==
  LET kw == [query |-> <<"query">>, course_name |-> NoneValue,
             lesson_number |-> NoneValue]
      meta == [course_title |-> <<"MCP">>, lesson_number |-> IntVal(1)]
      docs(n) == [i \in 1..n |-> <<"doc", ToString(i)>>]
  IN { <<kw, [kind |-> "raise"]>>,
       <<kw, [kind |-> "results",
              results |-> [documents |-> docs(1), metadata |-> <<meta>>,
                           error |-> Str(<<"Search error: ", "connection failed">>)]]>> }
     \cup { <<kw, [kind |-> "results",
                   results |-> [documents |-> docs(n),
                                metadata |-> [i \in 1..n |-> meta],
                                error |-> NoneValue]]>> : n \in 0..MaxDocs }

\* slip: only a missing name is rejected
NameMissingNoneOnly(tool_name) == tool_name = NoneValue

\* if not tool_name
NameMissing(tool_name) == ~Truthy(tool_name)

\* ToolManager.register_tool(tool)
register_tool(tool) ==
  /\ LET tool_def == GetToolDefinition(tool)
           tool_name == DictGet(tool_def, "name", NoneValue)
    IN /\ reg_log' = Append(reg_log, tool)
       /\ IF NameMissing(tool_name)
            THEN /\ ret' = [op |-> "register_tool", tool |-> tool, raised |-> TRUE,
                            error |-> "ValueError"]
                 /\ UNCHANGED tm_tools
            ELSE /\ ret' = [op |-> "register_tool", tool |-> tool, raised |-> FALSE,
                            name |-> tool_name.v]
                 /\ tm_tools' = DictSet(tm_tools, tool_name.v, tool)
  /\ UNCHANGED << last_sources, slot_query, searched >>
  /\ UNCHANGED genVars

RegisterTool ==
  /\ Len(reg_log) < MaxRegisters
  /\ \E tool \in Tools : register_tool(tool)
  /\ UNCHANGED << phase, query_no, callers >>

\* ToolManager.get_tool_definitions()
get_tool_definitions ==
  /\ ret' = [op |-> "get_tool_definitions",
             definitions |-> [i \in DOMAIN tm_tools |->
                                GetToolDefinition(tm_tools[i].tool)]]
  /\ UNCHANGED << tm_tools, last_sources, reg_log, slot_query, searched >>
  /\ UNCHANGED genVars

GetToolDefinitions == get_tool_definitions /\ UNCHANGED << phase, query_no, callers >>

\* ToolManager.execute_tool(tool_name, **kwargs) for the names in names, the
\* searches drawn from inputs and the outline stores of every lesson order
\* when ordered
execute_tool_on(names, inputs, ordered) ==
  /\ \E tool_name \in names :
       IF tool_name \notin Keys(tm_tools)
         THEN /\ ret' = [op |-> "execute_tool", name |-> tool_name, found |-> FALSE,
                         raised |-> FALSE, text |-> NotFoundText(tool_name)]
              /\ UNCHANGED << last_sources, slot_query, searched >>
         ELSE LET tool == Lookup(tm_tools, tool_name)
                  op == [op |-> "execute_tool", name |-> tool_name, found |-> TRUE]
              IN IF tool \in SearchTools
                   THEN \E in \in inputs : RunSearch(op, tool, in[1], in[2])
                   ELSE /\ \E kw \in OutlineKwargs :
                           \E store \in (IF ordered THEN OrderedStores(kw)
                                                     ELSE OutlineStores(kw)) :
                             ret' = Merge(Merge(op, [tool |-> tool, kwargs |-> kw,
                                                     store |-> store]),
                                          OutlineExecute(kw, store))
                        /\ UNCHANGED << last_sources, slot_query, searched >>
  /\ UNCHANGED << tm_tools, reg_log >>
  /\ UNCHANGED genVars

\* ToolManager.execute_tool(tool_name, **kwargs), the searches drawn from inputs
execute_tool(inputs) == execute_tool_on(ExecNames, inputs, FALSE)

ExecuteTool == execute_tool(FixtureInputs) /\ UNCHANGED << phase, query_no, callers >>

\* ToolManager.get_last_sources()
get_last_sources ==
  /\ ret' = [op |-> "get_last_sources",
             sources |-> FirstSources(tm_tools, last_sources, 1)]
  /\ UNCHANGED << tm_tools, last_sources, reg_log, slot_query, searched >>
  /\ UNCHANGED genVars

GetLastSources == get_last_sources /\ UNCHANGED << phase, query_no, callers >>

\* ToolManager.reset_sources()
reset_sources ==
  /\ last_sources' = SlotsAfterReset(tm_tools, last_sources)
  /\ ret' = [op |-> "reset_sources"]
  /\ UNCHANGED << tm_tools, reg_log, slot_query, searched >>
  /\ UNCHANGED genVars

ResetSources == reset_sources /\ UNCHANGED << phase, query_no, callers >>

InitRegistry == Init /\ max_tool_rounds = MaxRounds

NextRegistry ==
  \/ RegisterTool
  \/ GetToolDefinitions
  \/ ExecuteTool
  \/ GetLastSources
  \/ ResetSources

SpecRegistry == InitRegistry /\ [][NextRegistry]_vars

\* the registries the outline tool is reached through
RegisterOutlineTools ==
  /\ Len(reg_log) < MaxRegisters
  /\ \E tool \in {"outline", "search_a"} : register_tool(tool)
  /\ UNCHANGED << phase, query_no, callers >>

\* execute_tool("get_course_outline", ...) on stores of every lesson order
ExecuteOutline ==
  /\ execute_tool_on({<<"get_course_outline">>}, FixtureInputs, TRUE)
  /\ UNCHANGED << phase, query_no, callers >>

InitOutline == Init /\ max_tool_rounds = MaxRounds

NextOutline ==
  \/ RegisterOutlineTools
  \/ ExecuteOutline

SpecOutline == InitOutline /\ [][NextOutline]_vars

\* the tools a registration is tried with: with a name, with an empty name
\* and without a name
NamingTools == {"search_a", "outline", "emptyname", "nameless"}

RegisterAnyTool ==
  /\ Len(reg_log) < MaxRegisters
  /\ \E tool \in NamingTools : register_tool(tool)
  /\ UNCHANGED << phase, query_no, callers >>

InitRegister == Init /\ max_tool_rounds = MaxRounds

NextRegister ==
  \/ RegisterAnyTool
  \/ GetToolDefinitions

SpecRegister == InitRegister /\ [][NextRegister]_vars

\* the registries in which more than one tool carries a last_sources list
SourceRegistryTools == SourceTools \cup {"outline"}

\* the lists a last_sources attribute is set to
SampleSources ==
  { << [text |-> <<"Test Course">>, url |-> Str(<<"http://example.com">>)] >>,
    << [text |-> <<"Test">>, url |-> NoneValue] >> }

RegisterSourceTool ==
  /\ Len(reg_log) < MaxRegisters
  /\ \E tool \in SourceRegistryTools : register_tool(tool)
  /\ UNCHANGED << phase, query_no, callers >>

\* tool.last_sources = [...] on a tool, registered or not
AssignSources ==
  /\ \E t \in SourceTools, sources \in SampleSources :
       /\ last_sources' = [last_sources EXCEPT ![t] = sources]
       /\ slot_query' = [slot_query EXCEPT ![t] = query_no]
       /\ ret' = [op |-> "assign", tool |-> t]
  /\ UNCHANGED << tm_tools, reg_log, phase, query_no, callers, searched >>
  /\ UNCHANGED genVars

InitSources == Init /\ max_tool_rounds = MaxRounds

NextSources ==
  \/ RegisterSourceTool
  \/ AssignSources
  \/ GetLastSources
  \/ ResetSources

SpecSources == InitSources /\ [][NextSources]_vars

\* ------------------------------------------------- the caller of a query

\* the registry a caller works with: the search tool, then the outline tool
Setup ==
  /\ phase = "idle"
  /\ tm_tools' = DictSet(DictSet(tm_tools, GetToolDefinition("search_a").name.v,
                                 "search_a"),
                         GetToolDefinition("outline").name.v, "outline")
  /\ reg_log' = reg_log \o <<"search_a", "outline">>
  /\ ret' = [op |-> "register_tool", tool |-> "outline", raised |-> FALSE,
             name |-> GetToolDefinition("outline").name.v]
  /\ phase' = "ready"
  /\ UNCHANGED << last_sources, query_no, callers, slot_query, searched >>
  /\ UNCHANGED genVars

\* a query begins: generate_response is called with the registry
QueryStart ==
  /\ phase = "ready"
  /\ query_no < MaxQueries
  /\ query_no' = query_no + 1
  /\ phase' = "generate"
  /\ UNCHANGED callers
  /\ UNCHANGED << tm_tools, last_sources, ret, reg_log, slot_query, searched >>
  /\ UNCHANGED genVars

\* a tool call of the running generate_response
QueryExecute ==
  /\ phase = "generate"
  /\ execute_tool(FixtureInputs)
  /\ UNCHANGED << phase, query_no, callers >>

\* generate_response returns to the caller
QueryGenerated ==
  /\ phase = "generate"
  /\ phase' = "read"
  /\ UNCHANGED << tm_tools, last_sources, ret, reg_log, query_no, callers, slot_query,
                  searched >>
  /\ UNCHANGED genVars

\* the caller reads the sources
QueryRead ==
  /\ phase = "read"
  /\ get_last_sources
  /\ phase' = "reset"
  /\ UNCHANGED << query_no, callers >>

\* the caller resets the sources, which ends the query
QueryReset ==
  /\ phase = "reset"
  /\ reset_sources
  /\ phase' = "ready"
  /\ UNCHANGED << query_no, callers >>

InitQueries == Init /\ max_tool_rounds = MaxRounds

NextQueries ==
  \/ Setup
  \/ QueryStart
  \/ QueryExecute
  \/ QueryGenerated
  \/ QueryRead
  \/ QueryReset

SpecQueries == InitQueries /\ [][NextQueries]_vars

\* ------------------------------------------- callers sharing one registry

InFlight(c) == callers.phase[c] # "ready"

\* caller c begins a query: generate_response is called with the registry
CallerStart ==
  /\ phase = "ready"
  /\ query_no < MaxQueries
  /\ query_no' = query_no + 1
  /\ \E c \in Callers :
       /\ ~InFlight(c)
       /\ callers' =
            [phase |-> [callers.phase EXCEPT ![c] = "generate"],
             query |-> [callers.query EXCEPT ![c] = query_no + 1],
             recorded |-> [callers.recorded EXCEPT ![c] = <<>>],
             got |-> [callers.got EXCEPT ![c] = <<>>],
             alone |-> [d \in Callers |->
                          IF d = c THEN \A e \in Callers \ {c} : ~InFlight(e)
                          ELSE IF InFlight(d) THEN FALSE
                          ELSE callers.alone[d]]]
  /\ UNCHANGED << tm_tools, last_sources, ret, reg_log, phase, slot_query, searched >>
  /\ UNCHANGED genVars

\* a tool call of the generate_response of caller c
CallerExecute ==
  /\ \E c \in Callers :
       /\ callers.phase[c] = "generate"
       /\ execute_tool(FixtureInputs)
       /\ callers' =
            IF "wrote" \in DOMAIN ret' /\ ret'.wrote
              THEN [callers EXCEPT !.recorded[c] = last_sources'[ret'.tool]]
              ELSE callers
  /\ UNCHANGED << phase, query_no >>

\* generate_response returns to caller c
CallerGenerated ==
  /\ \E c \in Callers :
       /\ callers.phase[c] = "generate"
       /\ callers' = [callers EXCEPT !.phase[c] = "read"]
  /\ UNCHANGED << tm_tools, last_sources, ret, reg_log, phase, query_no, slot_query,
                  searched >>
  /\ UNCHANGED genVars

\* caller c reads the sources
CallerRead ==
  /\ \E c \in Callers :
       /\ callers.phase[c] = "read"
       /\ get_last_sources
       /\ callers' = [callers EXCEPT !.phase[c] = "reset", !.got[c] = ret'.sources]
  /\ UNCHANGED << phase, query_no >>

\* caller c resets the sources, which ends its query
CallerReset ==
  /\ \E c \in Callers :
       /\ callers.phase[c] = "reset"
       /\ reset_sources
       /\ callers' = [callers EXCEPT !.phase[c] = "ready"]
  /\ UNCHANGED << phase, query_no >>

InitOverlap == Init /\ max_tool_rounds = MaxRounds

NextOverlap ==
  \/ Setup
  \/ CallerStart
  \/ CallerExecute
  \/ CallerGenerated
  \/ CallerRead
  \/ CallerReset

SpecOverlap == InitOverlap /\ [][NextOverlap]_vars

\* ----------------------------- generate_response over the real ToolManager

\* the blocks of the model's replies: text, the registered search tool and a
\* tool name nobody registered
DispatchKinds == {"text", "search_course_content", "nonexistent_tool"}

\* str(e) of the exception the retrieval backend raises
BackendError == <<"ChromaDB crash">>

\* what a search block is executed with: the store raises, or returns one chunk
DispatchInputs ==
  LET kw == [query |-> <<"query">>, course_name |-> NoneValue,
             lesson_number |-> NoneValue]
      meta == [course_title |-> <<"MCP">>, lesson_number |-> IntVal(1)]
  IN << <<kw, [kind |-> "raise"]>>,
        <<kw, [kind |-> "results",
               results |-> [documents |-> << <<"doc", "1">> >>, metadata |-> <<meta>>,
                            error |-> NoneValue]]>> >>

\* slip: execute_tool raises for an unknown name
NotFoundRaises(tool_name, slots) ==
  [raised |-> TRUE, found |-> FALSE, backend |-> "none",
   text |-> NotFoundText(tool_name), msg |-> NotFoundText(tool_name),
   slots |-> slots, wrote |-> FALSE]

\* return f"Tool '{tool_name}' not found": a value, not an exception
NotFound(tool_name, slots) ==
  [raised |-> FALSE, found |-> FALSE, backend |-> "none",
   text |-> NotFoundText(tool_name), msg |-> <<>>,
   slots |-> slots, wrote |-> FALSE]

\* slip: execute catches the exception of store.search and returns a text
BackendCaught(slots) ==
  [raised |-> FALSE, found |-> TRUE, backend |-> "raise",
   text |-> <<"Search error: ">> \o BackendError, msg |-> <<>>,
   slots |-> slots, wrote |-> FALSE]

\* store.search raises: nothing in execute or execute_tool catches it, and
\* the statements after the search do not run
BackendRaised(slots) ==
  [raised |-> TRUE, found |-> TRUE, backend |-> "raise",
   text |-> <<>>, msg |-> BackendError,
   slots |-> slots, wrote |-> FALSE]

\* ToolManager.execute_tool(tool_name, **kw) on a registry d of search tools
\* whose last_sources are slots, as its caller sees it; b is what the store does
ManagerExecute(d, slots, tool_name, kw, b) ==
  IF tool_name \notin Keys(d) THEN NotFound(tool_name, slots)
  ELSE IF b.kind = "raise" THEN BackendRaised(slots)
  ELSE LET tool == Lookup(d, tool_name)
           x == SearchExecute(slots[tool], kw, b.results)
       IN [raised |-> FALSE, found |-> TRUE, backend |-> b.kind,
           text |-> x.text, msg |-> <<>>,
           slots |-> [slots EXCEPT ![tool] = x.sources], wrote |-> x.wrote]

\* the tool_result appended after execute_tool returned text
ToolResult(block, text) ==
  [type |-> "tool_result", tool_use_id |-> block.id, content |-> text]

\* _execute_tools_from_response over the registry d: the for loop from block
\* i on; ins[i] is what block i is executed with, acc holds tool_results,
\* had_error, the execute_tool calls and the last_sources so far
RECURSIVE DispatchBlocks(_, _, _, _, _)
DispatchBlocks(content, d, ins, i, acc) ==
  IF i > Len(content) THEN acc
  ELSE IF content[i].type # "tool_use"
    THEN DispatchBlocks(content, d, ins, i + 1, acc)
    ELSE LET r == ManagerExecute(d, acc.slots, content[i].name, ins[i][1], ins[i][2])
             call == [tool_use_id |-> content[i].id, name |-> content[i].name,
                      raised |-> r.raised, msg |-> r.msg, found |-> r.found,
                      backend |-> r.backend, text |-> r.text, wrote |-> r.wrote,
                      slots_before |-> acc.slots, slots_after |-> r.slots]
         IN DispatchBlocks(content, d, ins, i + 1,
              [tool_results |->
                 Append(acc.tool_results,
                        IF r.raised THEN ErrorResult(content[i], r.msg)
                                    ELSE ToolResult(content[i], r.text)),
               had_error |-> acc.had_error \/ r.raised,
               calls |-> Append(acc.calls, call),
               slots |-> r.slots])

\* the search tool is registered with the manager
RegisterSearchTool ==
  /\ pc = "idle"
  /\ tm_tools = <<>>
  /\ register_tool("search_a")
  /\ UNCHANGED << phase, query_no, callers >>

\* generate_response(query, tools=get_tool_definitions(), tool_manager=manager)
GenerateDispatch ==
  /\ tm_tools # <<>>
  /\ GenerateWith({NoneValue},
                  {List([i \in DOMAIN tm_tools |-> GetToolDefinition(tm_tools[i].tool)])},
                  {ToolManagerObject})
  /\ UNCHANGED toolVars

\* an iteration of the main loop against a model that may name unknown tools
LoopDispatch ==
  /\ LoopCallWith(DispatchKinds)
  /\ UNCHANGED toolVars

\* _execute_tools_from_response with the real manager, the append of the tool
\* results and TERMINATION 3
DispatchTools ==
  /\ pc = "exec"
  /\ \E ins \in [1..Len(response.content) -> {1, 2}] :
       /\ \A i \in DOMAIN ins :
            (response.content[i].type # "tool_use"
               \/ response.content[i].name \notin Keys(tm_tools)) => ins[i] = 1
       /\ LET x == DispatchBlocks(response.content, tm_tools,
                                  [i \in DOMAIN ins |-> DispatchInputs[ins[i]]], 1,
                                  [tool_results |-> <<>>, had_error |-> FALSE,
                                   calls |-> <<>>, slots |-> last_sources])
              wrote == { j \in DOMAIN x.calls : x.calls[j].wrote }
          IN /\ messages' = Append(messages, [role |-> "user", content |-> x.tool_results])
             /\ executed' = executed \o
                  [j \in 1..Len(x.calls) |->
                     Merge(x.calls[j], [after_call |-> Len(api_calls)])]
             /\ last_sources' = x.slots
             /\ slot_query' =
                  [t \in DOMAIN slot_query |->
                     IF \E j \in wrote : Lookup(tm_tools, x.calls[j].name) = t
                       THEN query_no ELSE slot_query[t]]
             /\ searched' = (searched \/ \E j \in DOMAIN x.calls : x.calls[j].found)
             /\ IF ErrorTerminates(x.had_error)
                  THEN pc' = "synth" /\ round_num' = round_num
                  ELSE pc' = "loop" /\ round_num' = NextRound(round_num)
  /\ tool_rounds' = tool_rounds + 1
  /\ UNCHANGED << tm_tools, ret, reg_log, phase, query_no, callers >>
  /\ UNCHANGED << max_tool_rounds, conversation_history, tools, tool_manager,
                  system_content,
                  response, outcome, result, error, api_calls >>

InitDispatch ==
  /\ ToolInit
  /\ max_tool_rounds = OneToolRound
  /\ GenerateInit

NextDispatch ==
  \/ RegisterSearchTool
  \/ GenerateDispatch
  \/ LoopDispatch
  \/ DispatchTools
  \/ ForceFinalSynthesis

SpecDispatch == InitDispatch /\ [][NextDispatch]_vars

\* ------------------------------------------------------------- vocabulary

\* tools and a tool executor were supplied to the running generate call
ToolsSupplied == pc # "idle" /\ Truthy(tools) /\ Truthy(tool_manager)

\* the generate call runs without tools or without a tool executor
ToolsMissing == pc # "idle" /\ (~Truthy(tools) \/ ~Truthy(tool_manager))

CallIndices == 1..Len(api_calls)

NoCallRaised == \A i \in CallIndices : ~api_calls[i].raised

CarriesTools(c) == "tools" \in DOMAIN c.params

CarriesToolChoice(c) == "tool_choice" \in DOMAIN c.params

\* the reply of call c requests tool use
RequestsToolUse(c) == ~c.raised /\ c.response.stop_reason = "tool_use"

\* the reply starts with a text block: that block's text is the reply's text
HasText(r) == Len(r.content) > 0 /\ r.content[1].type = "text"

\* generate returned the text of the reply to call c
ReturnedTextOf(c) ==
  /\ pc = "done"
  /\ outcome = "returned"
  /\ result = c.response.content[1].text

\* the ids of the tool-invocation blocks of a reply
ToolUseIds(r) ==
  { r.content[i].id : i \in { j \in 1..Len(r.content) : r.content[j].type = "tool_use" } }

\* ------------------------------------------------------------------ claims

\* C1: with tools and a tool executor supplied, when the first model reply has
\* a stop reason other than tool_use, that call is the only model call of the
\* generate call, no tool is executed, and the text returned is that reply's
\* text.
C1_DirectAnswerSingleCall ==
  (ToolsSupplied /\ Len(api_calls) >= 1 /\ ~api_calls[1].raised
     /\ api_calls[1].response.stop_reason # "tool_use")
  => /\ pc = "done"
     /\ Len(api_calls) = 1
     /\ executed = <<>>
     /\ tool_rounds = 0
     /\ HasText(api_calls[1].response) => ReturnedTextOf(api_calls[1])

C1_Witness ==
  /\ ToolsSupplied
  /\ max_tool_rounds = 2
  /\ Len(api_calls) = 1
  /\ ~api_calls[1].raised
  /\ api_calls[1].response.stop_reason = "end_turn"
  /\ HasText(api_calls[1].response)
  /\ Len(api_calls[1].response.content) = 2
  /\ ReturnedTextOf(api_calls[1])

\* C2: in a finished generate call in which some model reply requested tool
\* use and no model call raised, the number of model calls is the number of
\* tool-execution rounds plus one, and the number of rounds is at most
\* max_tool_rounds; with max_tool_rounds = 2 and tool use requested on every
\* call that carried tools, exactly 3 model calls are made.
C2_CallsAreRoundsPlusOne ==
  (pc = "done" /\ outcome = "returned" /\ NoCallRaised
     /\ \E i \in CallIndices : RequestsToolUse(api_calls[i]))
  => /\ Len(api_calls) = tool_rounds + 1
     /\ tool_rounds <= max_tool_rounds
     /\ (ToolsSupplied /\ max_tool_rounds = 2
           /\ (\A k \in 1..Len(executed) : ~executed[k].raised)
           /\ \A i \in CallIndices : CarriesTools(api_calls[i]) => RequestsToolUse(api_calls[i]))
        => Len(api_calls) = 3

\* C3: a model call made once max_tool_rounds tool-execution rounds have been
\* performed carries no tools.
C3_NoToolsOnceRoundsAreUsed ==
  \A i \in CallIndices :
    api_calls[i].rounds_done >= max_tool_rounds => ~CarriesTools(api_calls[i])

\* C4: the number of tool-execution rounds never exceeds max_tool_rounds, and
\* when the reply to the call made at round_num = max_tool_rounds requests tool
\* use, none of its tool invocations is executed and the next and last model
\* call is the forced synthesis.
C4_RoundsNeverExceedMax ==
  /\ tool_rounds <= max_tool_rounds
  /\ \A i \in CallIndices :
       (ToolsSupplied /\ ~api_calls[i].forced /\ api_calls[i].round = max_tool_rounds
          /\ RequestsToolUse(api_calls[i]))
       => /\ \A k \in 1..Len(executed) :
               executed[k].tool_use_id \notin ToolUseIds(api_calls[i].response)
          /\ pc \in {"synth", "done"}
          /\ pc = "synth" => Len(api_calls) = i
          /\ pc = "done" => Len(api_calls) = i + 1 /\ api_calls[i + 1].forced

C4_Witness ==
  /\ pc = "done"
  /\ max_tool_rounds = 2
  /\ tool_rounds = 2
  /\ Len(api_calls) = 4
  /\ api_calls[4].forced
  /\ RequestsToolUse(api_calls[3])
  /\ ToolUseIds(api_calls[3].response) # {}
  /\ Len(executed) >= 2

\* C5: when a tool invocation raises in a tool-execution round, exactly one
\* more model call is made after that round, it is the forced synthesis and
\* carries no tools, its text is returned, and no tool is executed after that
\* round, whatever round budget is left.
C5_ToolErrorForcesSynthesis ==
  \A k \in 1..Len(executed) :
    executed[k].raised =>
      LET n == executed[k].after_call
      IN /\ \A j \in 1..Len(executed) : executed[j].after_call <= n
         /\ pc \in {"synth", "done"}
         /\ pc = "synth" => Len(api_calls) = n
         /\ pc = "done" =>
              /\ Len(api_calls) = n + 1
              /\ api_calls[n + 1].forced
              /\ ~CarriesTools(api_calls[n + 1])
              /\ (~api_calls[n + 1].raised /\ HasText(api_calls[n + 1].response))
                 => ReturnedTextOf(api_calls[n + 1])

C5_Witness ==
  /\ pc = "done"
  /\ max_tool_rounds = 2
  /\ tool_rounds = 1
  /\ \E k \in 1..Len(executed) : executed[k].raised
  /\ Len(api_calls) = 2
  /\ api_calls[2].forced
  /\ ~api_calls[2].raised
  /\ ReturnedTextOf(api_calls[2])

\* C6: a generate call in which no model call raises ends by returning a text
\* (a model-produced answer or the fixed apology) and never by raising,
\* whatever stop reasons and lists of text and tool-invocation blocks, in any
\* order, the model returns and whether or not tools fail.
C6_AlwaysReturnsText ==
  (pc = "done" /\ NoCallRaised
     /\ \A i \in CallIndices : Len(api_calls[i].response.content) > 0)
  => outcome = "returned" /\ result # <<>>

\* the tool-invocation blocks of a reply, in order
ToolUseBlocks(r) ==
  LET IsUse(b) == b.type = "tool_use" IN SelectSeq(r.content, IsUse)

\* the last n execute_tool calls
LastExecuted(n) == SubSeq(executed, Len(executed) - n + 1, Len(executed))

\* the transcript ends with the tool results of the last round
JustExecuted ==
  /\ tool_rounds > 0
  /\ Len(messages) > 1
  /\ messages[Len(messages)].role = "user"

\* C7: a tool exception never leaves generate: in the tool-result message of a
\* round every failed invocation has a result with the invocation's call id,
\* flagged is_error, with content "Error executing <name>: <message>"; every
\* successful invocation has an unflagged result with the tool's text; and the
\* round counts as errored (the loop is left for the forced synthesis) exactly
\* when some invocation raised.
C7_ToolErrorsBecomeResults ==
  /\ outcome = "raised" => error \in ApiErrors \cup {"IndexError", "AttributeError"}
  /\ JustExecuted =>
       LET blocks == ToolUseBlocks(response)
           res == messages[Len(messages)].content
           ex == LastExecuted(Len(blocks))
       IN /\ Len(res) = Len(blocks)
          /\ Len(executed) >= Len(blocks)
          /\ \A j \in 1..Len(blocks) :
               /\ res[j].type = "tool_result"
               /\ res[j].tool_use_id = blocks[j].id
               /\ ex[j].tool_use_id = blocks[j].id
               /\ IF ex[j].raised
                    THEN /\ "is_error" \in DOMAIN res[j]
                         /\ res[j].is_error = TRUE
                         /\ res[j].content =
                              <<"Error executing ">> \o blocks[j].name \o <<": ">> \o ex[j].msg
                    ELSE /\ "is_error" \notin DOMAIN res[j]
                         /\ res[j].content = <<"output of">> \o blocks[j].name \o blocks[j].id
          /\ pc = "loop" => \A j \in 1..Len(blocks) : ~ex[j].raised
          /\ pc = "synth" => \E j \in 1..Len(blocks) : ex[j].raised
          /\ (pc = "done" /\ Len(api_calls) > 0 /\ api_calls[Len(api_calls)].forced)
             => \E j \in 1..Len(blocks) : ex[j].raised

C7_Witness ==
  /\ JustExecuted
  /\ pc = "synth"
  /\ Len(ToolUseBlocks(response)) = 2
  /\ LastExecuted(2)[1].raised
  /\ ~LastExecuted(2)[2].raised
  /\ "is_error" \in DOMAIN messages[Len(messages)].content[1]
  /\ "is_error" \notin DOMAIN messages[Len(messages)].content[2]

\* C8: a model call that raises is the last model call of the generate call:
\* generate fails with that same error, the call is not retried, and no tool
\* is executed afterwards.
C8_ModelErrorPropagates ==
  \A i \in CallIndices :
    api_calls[i].raised =>
      /\ i = Len(api_calls)
      /\ pc = "done"
      /\ outcome = "raised"
      /\ error = api_calls[i].error
      /\ \A k \in 1..Len(executed) : executed[k].after_call < i

C8_Witness ==
  /\ pc = "done"
  /\ Len(api_calls) = 3
  /\ api_calls[3].forced
  /\ api_calls[3].raised
  /\ ~api_calls[1].raised
  /\ outcome = "raised"
  /\ error = "AuthenticationError"

C10_ForcedSynthesisCall ==
  \A i \in CallIndices :
    api_calls[i].forced =>
      /\ ~CarriesTools(api_calls[i])
      /\ ~CarriesToolChoice(api_calls[i])
      /\ i > 1
      /\ i = Len(api_calls)
      /\ api_calls[i].params.messages = messages
      /\ Len(api_calls[i].params.messages) = 1 + (i - 1) + tool_rounds
      /\ \A j \in 1..(i - 1) :
           /\ api_calls[i].params.system = api_calls[j].params.system
           /\ ~api_calls[j].raised
           /\ messages[2 * j] =
                [role |-> "assistant", content |-> api_calls[j].response.content]
      /\ (~api_calls[i].raised /\ HasText(api_calls[i].response))
         => ReturnedTextOf(api_calls[i])

C10_Witness ==
  /\ pc = "done"
  /\ Len(api_calls) = 3
  /\ api_calls[3].forced
  /\ ~api_calls[3].raised
  /\ tool_rounds = 2
  /\ Len(api_calls[3].params.messages) = 5
  /\ api_calls[3].params.system # SYSTEM_PROMPT
  /\ ReturnedTextOf(api_calls[3])

\* ------------------------------------------------- vocabulary of the tools

\* the tool passed to register_tool has a name in its definition
Named(tool) == "name" \in DOMAIN GetToolDefinition(tool)

NameOf(tool) == GetToolDefinition(tool).name.v

\* the names registered so far, by the history of register_tool calls
RegisteredNames == { NameOf(reg_log[i]) : i \in { j \in DOMAIN reg_log : Named(reg_log[j]) } }

\* the registered names in the order in which each was first registered
RECURSIVE NamesInOrder(_)
NamesInOrder(log) ==
  IF log = <<>> THEN <<>>
  ELSE LET rest == NamesInOrder(SubSeq(log, 1, Len(log) - 1))
           tool == log[Len(log)]
       IN IF ~Named(tool) \/ \E i \in DOMAIN rest : rest[i] = NameOf(tool)
            THEN rest
            ELSE Append(rest, NameOf(tool))

\* the tool most recently registered under name
LatestRegistered(name) ==
  LET at == { i \in DOMAIN reg_log : Named(reg_log[i]) /\ NameOf(reg_log[i]) = name }
  IN reg_log[CHOOSE i \in at : \A j \in at : j <= i]

\* the last call was execute_tool
ExecutedByName(r) == r.op = "execute_tool"

\* the last call ran a search tool whose store returned a SearchResults
SearchReturned(r) ==
  /\ r.op \in {"execute", "execute_tool"}
  /\ "tool" \in DOMAIN r
  /\ r.tool \in SearchTools
  /\ ~r.raised

\* that SearchResults has no error and at least one document
MatchedDocuments(r) ==
  /\ SearchReturned(r)
  /\ r.results.error = NoneValue
  /\ Len(r.results.documents) > 0

ContainsToken(text, token) == \E i \in DOMAIN text : text[i] = token

\* every registered tool that has a last-sources slot has it empty
RegisteredSlotsEmpty ==
  \A i \in DOMAIN tm_tools :
    tm_tools[i].tool \in SearchTools => last_sources[tm_tools[i].tool] = <<>>

\* C11: execute_tool on a name that no register_tool call registered returns
\* a string containing "not found", raises nothing, runs no tool, and leaves
\* the registry and every last_sources slot as they were.
C11_UnknownNameNotFound ==
  [][ (ExecutedByName(ret') /\ ret'.name \notin RegisteredNames) =>
        /\ ContainsToken(ret'.text, "not found")
        /\ ~ret'.raised
        /\ ~ret'.found
        /\ "tool" \notin DOMAIN ret'
        /\ searched' = searched
        /\ tm_tools' = tm_tools
        /\ last_sources' = last_sources ]_vars

C11_Witness ==
  /\ ExecutedByName(ret)
  /\ ret.name = <<"get_course_outline">>
  /\ ret.name \notin RegisteredNames
  /\ RegisteredNames # {}
  /\ ~RegisteredSlotsEmpty
  /\ ContainsToken(ret.text, "not found")

\* C12: get_tool_definitions returns one definition per registered name, each
\* with name, description and input_schema, in the order in which the names
\* were first registered.
C12_DefinitionsInRegistrationOrder ==
  ret.op = "get_tool_definitions" =>
    LET names == NamesInOrder(reg_log)
    IN /\ Len(ret.definitions) = Len(names)
       /\ Len(ret.definitions) = Cardinality(RegisteredNames)
       /\ \A i \in DOMAIN ret.definitions :
            /\ {"name", "description", "input_schema"} \subseteq DOMAIN ret.definitions[i]
            /\ ret.definitions[i].name.v = names[i]

C12_Witness ==
  /\ ret.op = "get_tool_definitions"
  /\ reg_log = <<"search_a", "outline", "search_b">>
  /\ Len(ret.definitions) = 2
  /\ ret.definitions[1].name.v = <<"search_course_content">>
  /\ ret.definitions[2].name.v = <<"get_course_outline">>

\* C13: the registry has one entry per registered name; registering a name
\* that is already present raises nothing and adds no entry; execute_tool on
\* a registered name runs the tool most recently registered under that name.
C13_LastRegistrationWins ==
  /\ Len(tm_tools) = Cardinality(RegisteredNames)
  /\ { tm_tools[i].name : i \in DOMAIN tm_tools } = RegisteredNames
  /\ (ret.op = "register_tool" /\ Named(ret.tool)) => ~ret.raised
  /\ (ExecutedByName(ret) /\ ret.name \in RegisteredNames) =>
       /\ ret.found
       /\ ret.tool = LatestRegistered(ret.name)

C13_Witness ==
  /\ reg_log = <<"search_a", "search_b">>
  /\ Len(tm_tools) = 1
  /\ ExecutedByName(ret)
  /\ ret.found
  /\ ret.tool = "search_b"
  /\ ~ret.raised

C15_SlotHoldsLatestSearch ==
  SearchReturned(ret) =>
    Len(last_sources[ret.tool]) =
      IF ret.results.error = NoneValue THEN Len(ret.results.documents) ELSE 0

\* C16: a result without documents and without error makes the search tool
\* return "No relevant content found", then " in course '<X>'" when a course
\* filter X was supplied, then " in lesson <N>" when a lesson filter N was
\* supplied (lesson 0 included), then ".".
C16_EmptyMessageNamesFilters ==
  (/\ SearchReturned(ret)
   /\ ret.backend = "results"
   /\ ret.results.error = NoneValue
   /\ Len(ret.results.documents) = 0) =>
    ret.text =
      <<"No relevant content found">>
      \o (IF ret.kwargs.course_name # NoneValue
            THEN <<" in course '">> \o ret.kwargs.course_name.v \o <<"'">>
            ELSE <<>>)
      \o (IF ret.kwargs.lesson_number # NoneValue
            THEN <<" in lesson ", ToString(ret.kwargs.lesson_number.v)>>
            ELSE <<>>)
      \o <<".">>

\* C17: when the result of the store carries an error string, the search tool
\* returns exactly that string, whether or not the result also holds
\* documents, and records no sources.
C17_ErrorReturnedVerbatim ==
  [][ (SearchReturned(ret') /\ ret'.results.error # NoneValue) =>
        /\ ret'.text = ret'.results.error.v
        /\ last_sources' = last_sources ]_vars

C17_Witness ==
  /\ SearchReturned(ret)
  /\ ret.backend = "results"
  /\ ret.results.error # NoneValue
  /\ Len(ret.results.documents) = 2
  /\ ret.text = <<"Search error: ", "connection failed">>
  /\ last_sources[ret.tool] = <<>>

\* C18: when the store cannot resolve the course filter, the search tool
\* returns the "No relevant content found ..." message it returns for a
\* resolved course without matching chunks.
C18_UnknownCourseIsEmptyResult ==
  (SearchReturned(ret) /\ ret.backend = "unresolved") =>
    /\ Head(ret.text) = "No relevant content found"
    /\ ret.text =
         <<"No relevant content found">>
         \o <<" in course '">> \o ret.kwargs.course_name.v \o <<"'">>
         \o (IF Truthy(ret.kwargs.lesson_number)
               THEN <<" in lesson ", ToString(ret.kwargs.lesson_number.v)>>
               ELSE <<>>)
         \o <<".">>

\* C19: when the caller reads get_last_sources and then calls reset_sources
\* after every generate call, a non-empty list read during a query was
\* written into its slot during that same query.
C19_SourcesDeliveredOnce ==
  (ret.op = "get_last_sources" /\ ret.sources # <<>>) =>
    \E i \in DOMAIN tm_tools :
      /\ tm_tools[i].tool \in SearchTools
      /\ last_sources[tm_tools[i].tool] = ret.sources
      /\ slot_query[tm_tools[i].tool] = query_no

C19_Witness ==
  /\ phase = "reset"
  /\ query_no = 2
  /\ ret.op = "get_last_sources"
  /\ Len(ret.sources) = 1
  /\ slot_query["search_a"] = 2

\* C20: after a search that returned documents the slot holds one source per
\* document, in result order; its text is the course title, followed by
\* " - Lesson <n>" exactly when the metadata has a lesson number (0 included);
\* its url is the lesson link when the metadata has a lesson number and that
\* lesson has a link, otherwise the course link, otherwise None.
C20_SourcesFollowMetadata ==
  MatchedDocuments(ret) =>
    LET sources == last_sources[ret.tool]
        metadata == ret.results.metadata
    IN /\ Len(sources) = Len(ret.results.documents)
       /\ \A i \in DOMAIN sources :
            LET title == metadata[i].course_title
                has_lesson == "lesson_number" \in DOMAIN metadata[i]
                lesson_link == IF has_lesson
                                 THEN GetLessonLink(title, metadata[i].lesson_number.v)
                                 ELSE NoneValue
            IN /\ DOMAIN sources[i] = {"text", "url"}
               /\ sources[i].text =
                    IF has_lesson
                      THEN title \o <<" - Lesson ", ToString(metadata[i].lesson_number.v)>>
                      ELSE title
               /\ sources[i].url =
                    IF lesson_link # NoneValue THEN lesson_link
                    ELSE GetCourseLink(title)

C20_Witness ==
  /\ MatchedDocuments(ret)
  /\ last_sources[ret.tool] =
       << [text |-> <<"MCP", " - Lesson ", "0">>, url |-> Str(<<"https://mcp">>)],
          [text |-> <<"RAG">>, url |-> NoneValue] >>

\* the last call was execute_tool and it ran the outline tool
OutlineRan(r) == ExecutedByName(r) /\ r.found /\ r.tool = "outline"

\* the course was resolved and its stored lesson list cannot be decoded
LessonsMalformed(r) ==
  /\ "catalog" \in DOMAIN r.store
  /\ r.store.catalog \in {"malformed lessons_json", "lessons_json not a list"}

\* C21: when the stored lesson list of a resolved course cannot be decoded,
\* the outline tool raises nothing and returns a text that starts with
\* "Error retrieving course outline: ".
C21_OutlineCatchesDecodeErrors ==
  (OutlineRan(ret) /\ LessonsMalformed(ret)) =>
    /\ ~ret.raised
    /\ Head(ret.text) = "Error retrieving course outline: "
    /\ Len(ret.text) > 1

C21_Witness ==
  /\ OutlineRan(ret)
  /\ ret.kwargs.course_name = Str(<<"MCP">>)
  /\ ret.store.resolved = Str(<<"MCP">>)
  /\ ret.store.catalog = "malformed lessons_json"
  /\ ret.text = <<"Error retrieving course outline: ", "Expecting value">>

\* every tool_use block of every assistant message of the transcript msgs is
\* answered, with its id, in the user message that immediately follows
ToolUsesAnswered(msgs) ==
  \A k \in DOMAIN msgs :
    msgs[k].role = "assistant" =>
      \A b \in DOMAIN msgs[k].content :
        msgs[k].content[b].type = "tool_use" =>
          /\ k < Len(msgs)
          /\ msgs[k + 1].role = "user"
          /\ \E j \in DOMAIN msgs[k + 1].content :
               /\ msgs[k + 1].content[j].type = "tool_result"
               /\ msgs[k + 1].content[j].tool_use_id = msgs[k].content[b].id

\* C22: on every model call, every tool_use block of an assistant message of
\* the transcript is answered by a tool_result with the same id in the user
\* message that immediately follows; no call is made with a tool call
\* outstanding.
C22_NoCallWithOutstandingToolUse ==
  \A i \in CallIndices : ToolUsesAnswered(api_calls[i].params.messages)

IsToolUseBlock(b) == b.type = "tool_use"

\* the tool-execution round that followed model call n has been performed:
\* its tool results are message 2n+1 of the transcript
RoundExecuted(n) == ToolsSupplied /\ Len(messages) >= 2 * n + 1

\* the execute_tool calls made in the round that followed model call n
ExecutedAfter(n) == SelectSeq(executed, LAMBDA e : e.after_call = n)

\* C23: in a tool-execution round every tool_use block of the response is
\* executed exactly once, in the order of the blocks, and the round yields
\* one tool_result per tool_use block, in the same order and with the same
\* ids; a tool that raises does not stop the later blocks from being executed.
C23_OneResultPerToolUse ==
  \A n \in CallIndices :
    RoundExecuted(n) =>
      LET uses == SelectSeq(api_calls[n].response.content, IsToolUseBlock)
          results == messages[2 * n + 1].content
          calls == ExecutedAfter(n)
      IN /\ messages[2 * n + 1].role = "user"
         /\ Len(results) = Len(uses)
         /\ Len(calls) = Len(uses)
         /\ \A j \in DOMAIN uses :
              /\ results[j].type = "tool_result"
              /\ results[j].tool_use_id = uses[j].id
              /\ calls[j].tool_use_id = uses[j].id
              /\ calls[j].name = uses[j].name
              /\ calls[j].raised <=> "is_error" \in DOMAIN results[j]

C23_Witness ==
  /\ RoundExecuted(1)
  /\ Len(api_calls[1].response.content) = 2
  /\ \A i \in 1..2 : IsToolUseBlock(api_calls[1].response.content[i])
  /\ Len(executed) = 2
  /\ executed[1].raised
  /\ ~executed[2].raised
  /\ executed[2].tool_use_id = api_calls[1].response.content[2].id
  /\ Len(messages[3].content) = 2

\* the transcript sent on model call i
SentOn(i) == api_calls[i].params.messages

\* the assistant message made of the reply to model call i
AssistantMessageOf(i) == [role |-> "assistant", content |-> api_calls[i].response.content]

IsPrefix(a, b) == Len(a) <= Len(b) /\ SubSeq(b, 1, Len(a)) = a

\* C24: the transcript is append-only: every reply of the loop is appended as
\* an assistant message before its stop reason is examined, the transcript
\* sent on each model call (forced synthesis included) has the transcript of
\* every earlier call as a prefix, and it contains every earlier reply and
\* every earlier tool result of the generate call.
C24_TranscriptAppendOnly ==
  /\ \A i \in CallIndices : IsPrefix(SentOn(i), messages)
  /\ \A i \in CallIndices :
       (ToolsSupplied /\ ~api_calls[i].raised /\ ~api_calls[i].forced) =>
         /\ Len(messages) > Len(SentOn(i))
         /\ messages[Len(SentOn(i)) + 1] = AssistantMessageOf(i)
  /\ \A i, j \in CallIndices :
       i < j =>
         /\ IsPrefix(SentOn(i), SentOn(j))
         /\ Len(SentOn(j)) > Len(SentOn(i))
         /\ SentOn(j)[Len(SentOn(i)) + 1] = AssistantMessageOf(i)
         /\ \A k \in DOMAIN executed :
              executed[k].after_call = i =>
                \E m \in DOMAIN SentOn(j)[2 * i + 1].content :
                  SentOn(j)[2 * i + 1].content[m].tool_use_id = executed[k].tool_use_id

C24_Witness ==
  /\ pc = "done"
  /\ Len(api_calls) = 3
  /\ api_calls[3].forced
  /\ Len(executed) >= 2
  /\ Len(SentOn(1)) = 1
  /\ Len(SentOn(2)) = 3
  /\ Len(SentOn(3)) = 5
  /\ SentOn(3)[4] = AssistantMessageOf(2)

\* C25: whenever tool definitions are passed to generate_response, the model
\* call carries those tools together with tool_choice {"type": "auto"}, also
\* when no tool manager is passed.
C25_SuppliedToolsAreSent ==
  (pc # "idle" /\ Truthy(tools) /\ Len(api_calls) >= 1) =>
    /\ CarriesTools(api_calls[1])
    /\ api_calls[1].params.tools = tools
    /\ CarriesToolChoice(api_calls[1])
    /\ api_calls[1].params.tool_choice = [type |-> "auto"]

\* C26: every generate call makes at least one model call before it returns,
\* for every configured max_tool_rounds and with or without tools.
C26_AtLeastOneModelCall ==
  pc = "done" => Len(api_calls) >= 1

LastCall == api_calls[Len(api_calls)]

\* the forced call came from TERMINATION 2: the loop call before it was made
\* in the last allowed round and no tool round was performed in between
ByMaxRounds ==
  /\ Len(api_calls) >= 2
  /\ LastCall.forced
  /\ LastCall.round = max_tool_rounds
  /\ LastCall.rounds_done = api_calls[Len(api_calls) - 1].rounds_done

\* the forced call came from TERMINATION 3: a tool of the round performed
\* just before it raised
ByToolError ==
  /\ Len(api_calls) >= 2
  /\ LastCall.forced
  /\ LastCall.rounds_done = api_calls[Len(api_calls) - 1].rounds_done + 1
  /\ \E k \in DOMAIN executed :
       executed[k].after_call = Len(api_calls) - 1 /\ executed[k].raised

\* C27: for every max_tool_rounds >= 0 the loop never falls through: a
\* generate call with tools returns from one of the three termination
\* branches (reply that is not tool_use, max rounds reached, tool error) and
\* the fallback apology is never returned.
C27_LoopNeverFallsThrough ==
  max_tool_rounds >= 0 =>
    /\ (pc = "loop" => round_num <= max_tool_rounds)
    /\ (pc = "done" /\ outcome = "returned") =>
         /\ result # Apology
         /\ Len(api_calls) >= 1
         /\ ~LastCall.raised
         /\ result = LastCall.response.content[1].text
         /\ ToolsSupplied =>
              \/ ~LastCall.forced /\ LastCall.response.stop_reason # "tool_use"
              \/ ByMaxRounds
              \/ ByToolError

C27_Witness ==
  /\ max_tool_rounds = 1
  /\ pc = "done"
  /\ outcome = "returned"
  /\ ToolsSupplied
  /\ Len(api_calls) = 3
  /\ tool_rounds = 1
  /\ ByMaxRounds
  /\ result # Apology

\* the number of tool_use blocks in the reply to call c
ToolUseCount(c) == Len(SelectSeq(c.response.content, IsToolUseBlock))

\* the generate call has ended, with room for two tool rounds; the model asked
\* for tool use on its first two calls, no model call and no tool raised, and
\* a third reply, if there is one, is a text reply that is not tool_use
TwoRoundsThenText ==
  /\ pc = "done"
  /\ ToolsSupplied
  /\ max_tool_rounds >= 2
  /\ NoCallRaised
  /\ Len(api_calls) >= 2
  /\ RequestsToolUse(api_calls[1])
  /\ RequestsToolUse(api_calls[2])
  /\ \A k \in DOMAIN executed : ~executed[k].raised
  /\ Len(api_calls) >= 3 =>
       /\ api_calls[3].response.stop_reason # "tool_use"
       /\ HasText(api_calls[3].response)

\* C28: when the model requests a tool on its first two calls, both
\* executions succeed and the third reply is not tool_use, generate makes
\* exactly 3 model calls and 2 tool rounds (2 tool executions when each reply
\* holds one tool_use block), and returns the third reply's text without a
\* forced-synthesis call.
C28_TwoRoundsThenAnswer ==
  TwoRoundsThenText =>
    /\ Len(api_calls) = 3
    /\ \A i \in CallIndices : ~api_calls[i].forced /\ CarriesTools(api_calls[i])
    /\ tool_rounds = 2
    /\ Len(executed) = ToolUseCount(api_calls[1]) + ToolUseCount(api_calls[2])
    /\ Len(ExecutedAfter(1)) = ToolUseCount(api_calls[1])
    /\ Len(ExecutedAfter(2)) = ToolUseCount(api_calls[2])
    /\ ReturnedTextOf(api_calls[3])

C28_Witness ==
  /\ TwoRoundsThenText
  /\ max_tool_rounds = 2
  /\ Len(api_calls) = 3
  /\ ToolUseCount(api_calls[1]) = 1
  /\ ToolUseCount(api_calls[2]) = 1
  /\ Len(executed) = 2
  /\ executed[1].after_call = 1
  /\ executed[2].after_call = 2
  /\ api_calls[3].response.stop_reason = "end_turn"
  /\ ReturnedTextOf(api_calls[3])

\* the tools of the registry, in the order in which their names were first
\* registered, each name standing for the tool registered under it last
RegisteredInOrder ==
  [i \in DOMAIN NamesInOrder(reg_log) |-> LatestRegistered(NamesInOrder(reg_log)[i])]

\* t is in the registry and carries a last_sources list
RegisteredSlot(t) ==
  t \in SourceTools /\ \E i \in DOMAIN RegisteredInOrder : RegisteredInOrder[i] = t

\* the list of the first registered tool whose list is not empty
FirstNonEmptySources ==
  LET filled == { i \in DOMAIN RegisteredInOrder :
                    /\ RegisteredInOrder[i] \in SourceTools
                    /\ last_sources[RegisteredInOrder[i]] # <<>> }
  IN IF filled = {} THEN <<>>
     ELSE last_sources[RegisteredInOrder[CHOOSE i \in filled : \A j \in filled : i <= j]]

\* C29: get_last_sources returns the last_sources list of the first tool, in
\* registration order, whose list is not empty ([] if there is none, tools
\* without the attribute being skipped), and modifies no slot; reset_sources
\* empties the list of every registered tool that has one and changes nothing
\* else in the registry.
C29_FirstNonEmptyAndResetFrame ==
  [][ /\ ret'.op = "get_last_sources" =>
           /\ ret'.sources = FirstNonEmptySources
           /\ last_sources' = last_sources
           /\ tm_tools' = tm_tools
      /\ ret'.op = "reset_sources" =>
           /\ \A t \in DOMAIN last_sources :
                last_sources'[t] = IF RegisteredSlot(t) THEN <<>> ELSE last_sources[t]
           /\ DOMAIN last_sources' = DOMAIN last_sources
           /\ tm_tools' = tm_tools ]_vars

C29_Witness ==
  /\ ret.op = "get_last_sources"
  /\ reg_log = <<"search_a", "outline", "mock_tool">>
  /\ last_sources["search_a"] = <<>>
  /\ last_sources["search_b"] # <<>>
  /\ last_sources["mock_tool"] # <<>>
  /\ ret.sources = last_sources["mock_tool"]
  /\ ret.sources # last_sources["search_b"]

\* caller c has read the sources of its query
HasRead(c) == callers.query[c] > 0 /\ callers.phase[c] \in {"reset", "ready"}

\* C30: the source slot is shared state without synchronisation: a caller
\* whose query ran with no other query in flight reads exactly the sources
\* its own searches recorded, while with two overlapping queries a caller can
\* read the sources recorded by the other query's search, and can lose its
\* own to the other caller's reset_sources.
C30_IsolationOnlyWithoutOverlap ==
  \A c \in Callers :
    (HasRead(c) /\ callers.alone[c]) => callers.got[c] = callers.recorded[c]

C30_Witness ==
  /\ HasRead(1)
  /\ HasRead(2)
  /\ ~callers.alone[1]
  /\ ~callers.alone[2]
  /\ callers.recorded[1] # <<>>
  /\ callers.got[1] = <<>>
  /\ callers.recorded[2] = <<>>
  /\ callers.got[2] = callers.recorded[1]

\* the definition of tool has a name that is not empty
HasUsableName(tool) ==
  /\ "name" \in DOMAIN GetToolDefinition(tool)
  /\ GetToolDefinition(tool).name.v # <<>>

\* what get_tool_definitions returns for the registry d
DefinitionsOf(d) == [i \in DOMAIN d |-> GetToolDefinition(d[i].tool)]

\* C38: register_tool of a tool whose definition has no name, or an empty
\* name, raises an error and leaves the registry as it was: the registered
\* names, the tool each name dispatches to and the result of
\* get_tool_definitions are unchanged.
C38_NamelessRegistrationRejected ==
  [][ (ret'.op = "register_tool" /\ Len(reg_log') = Len(reg_log) + 1
         /\ ~HasUsableName(ret'.tool)) =>
        /\ ret'.raised
        /\ ret'.error = "ValueError"
        /\ { tm_tools'[i].name : i \in DOMAIN tm_tools' }
             = { tm_tools[i].name : i \in DOMAIN tm_tools }
        /\ tm_tools' = tm_tools
        /\ DefinitionsOf(tm_tools') = DefinitionsOf(tm_tools)
        /\ last_sources' = last_sources ]_vars

C38_Witness ==
  /\ reg_log = <<"search_a", "outline", "emptyname">>
  /\ ret.op = "register_tool"
  /\ ret.tool = "emptyname"
  /\ ret.raised
  /\ Len(tm_tools) = 2
  /\ tm_tools[1].tool = "search_a"
  /\ tm_tools[2].tool = "outline"

\* the lessons of l by ascending lesson number, for distinct numbers
Ascending(l) ==
  [i \in DOMAIN l |->
     l[CHOOSE j \in DOMAIN l :
         Cardinality({ k \in DOMAIN l : l[k].lesson_number < l[j].lesson_number }) = i - 1]]

\* the line of the outline for one lesson
LessonLine(lesson) == <<ToString(lesson.lesson_number), ". ">> \o lesson.lesson_title

\* the positions of the first tokens of the lesson lines in text
LessonLineStarts(text) == { i \in DOMAIN text : i < Len(text) /\ text[i + 1] = ". " }

\* C37: given a course name the backend cannot resolve, the outline tool
\* returns "No course found matching '<course_name>'."; given one it resolves,
\* with stored lessons, it renders the lessons by ascending lesson number
\* whatever their stored order; given no course name it lists every known
\* course and makes no title resolution.
C37_OutlineSortedOrNotFound ==
  OutlineRan(ret) =>
    /\ ~ret.raised
    /\ (Truthy(ret.kwargs.course_name) /\ ret.store.resolved = NoneValue) =>
         ret.text = <<"No course found matching '">> \o ret.kwargs.course_name.v \o <<"'.">>
    /\ (Truthy(ret.kwargs.course_name) /\ ret.store.resolved # NoneValue
          /\ ret.store.catalog = "lessons") =>
         LET sorted == Ascending(ret.store.lessons)
             starts == LessonLineStarts(ret.text)
         IN /\ Cardinality(starts) = Len(sorted)
            /\ \A i \in DOMAIN sorted :
                 \E p \in starts :
                   /\ Cardinality({ q \in starts : q < p }) = i - 1
                   /\ SubSeq(ret.text, p, p + 1 + Len(sorted[i].lesson_title))
                        = LessonLine(sorted[i])
            /\ ret.text[1] = "Course: "
    /\ ~Truthy(ret.kwargs.course_name) =>
         /\ ret.store_calls = <<"get_all_courses_metadata">>
         /\ \A i \in DOMAIN ret.store.all_courses :
              \E p \in DOMAIN ret.text :
                p < Len(ret.text) /\ ret.text[p] = "- "
                /\ SubSeq(ret.text, p + 1, p + Len(ret.store.all_courses[i].title))
                     = ret.store.all_courses[i].title

C37_Witness ==
  /\ OutlineRan(ret)
  /\ ret.kwargs.course_name = Str(<<"MCP">>)
  /\ ret.store.resolved = Str(<<"MCP">>)
  /\ ret.store.catalog = "lessons"
  /\ ret.store.lessons = << Lesson(2), Lesson(0), Lesson(1) >>
  /\ ret.text = <<"Course: ", "MCP", "\n", "Link: ", "https://mcp", "\n", "\n",
                  "Lessons:", "\n", "0", ". ", "Lesson", "0", "\n",
                  "1", ". ", "Lesson", "1", "\n", "2", ". ", "Lesson", "2">>

\* a history was supplied and is not empty
HistorySupplied == conversation_history # NoneValue /\ conversation_history.v # <<>>

\* C36: the system prompt is the same on every model call of one generate
\* call, the forced synthesis included: the base prompt alone when no history
\* or an empty one is supplied, the base prompt followed by the
\* previous-conversation suffix and the history otherwise; temperature 0 and
\* max_tokens 800 are sent on every call.
C36_SystemPromptAndFixedParams ==
  pc # "idle" =>
    /\ ~HistorySupplied => system_content = SYSTEM_PROMPT
    /\ HistorySupplied =>
         system_content
           = SYSTEM_PROMPT \o <<"\n\nPrevious conversation:\n">> \o conversation_history.v
    /\ \A i \in CallIndices :
         /\ api_calls[i].params.system = system_content
         /\ api_calls[i].params.temperature = 0
         /\ api_calls[i].params.max_tokens = 800

C36_Witness ==
  /\ pc = "done"
  /\ conversation_history = Str(<<"User: hi">>)
  /\ Len(api_calls) = 3
  /\ api_calls[3].forced
  /\ api_calls[3].params.system
       = <<"SYSTEM_PROMPT", "\n\nPrevious conversation:\n", "User: hi">>
  /\ api_calls[1].params.system = api_calls[3].params.system

\* C34: a generate call given tools and a tool executor makes at most one
\* model call without tools; that call is the last one of the generate call
\* and its reply is returned whatever its stop reason; every model call
\* before it carries the tool definitions with tool_choice auto.
C34_ToolLessCallIsLast ==
  ToolsSupplied =>
    \A i \in CallIndices :
      /\ ~CarriesTools(api_calls[i]) =>
           /\ i = Len(api_calls)
           /\ api_calls[i].forced
           /\ ~CarriesToolChoice(api_calls[i])
           /\ pc = "done"
           /\ (~api_calls[i].raised /\ HasText(api_calls[i].response)) =>
                ReturnedTextOf(api_calls[i])
      /\ (i < Len(api_calls) \/ ~api_calls[i].forced) =>
           /\ CarriesTools(api_calls[i])
           /\ api_calls[i].params.tools = tools
           /\ CarriesToolChoice(api_calls[i])
           /\ api_calls[i].params.tool_choice = [type |-> "auto"]

C34_Witness ==
  /\ ToolsSupplied
  /\ pc = "done"
  /\ Len(api_calls) = 3
  /\ CarriesTools(api_calls[1])
  /\ CarriesTools(api_calls[2])
  /\ ~CarriesTools(api_calls[3])
  /\ ~api_calls[3].raised
  /\ api_calls[3].response.stop_reason = "tool_use"
  /\ ReturnedTextOf(api_calls[3])

\* C33: provided every model call and every tool execution returns or
\* raises, every generate call terminates, after at most max_tool_rounds + 2
\* model calls and at most max_tool_rounds tool-execution rounds, whatever
\* the model replies.
C33_GenerateTerminates ==
  /\ [](Len(api_calls) <= max_tool_rounds + 2 /\ tool_rounds <= max_tool_rounds)
  /\ (pc # "idle") ~> (pc = "done")

C33_Witness ==
  /\ pc = "done"
  /\ max_tool_rounds = 2
  /\ Len(api_calls) = max_tool_rounds + 2
  /\ tool_rounds = max_tool_rounds
  /\ \A i \in 1..3 : RequestsToolUse(api_calls[i])

\* the role of message k of a transcript that starts with the user
RoleAt(k) == IF k % 2 = 1 THEN "user" ELSE "assistant"

\* the transcript m, sent on call i, is made of the user query and of nothing
\* but the replies and tool results of the calls 1..i-1 of this generate call
OwnTranscript(m, i) ==
  /\ Len(m) \in {2 * i - 2, 2 * i - 1} \ {0}
  /\ \A k \in DOMAIN m : m[k].role = RoleAt(k)
  /\ m[1].content = <<"query">>
  /\ \A k \in DOMAIN m :
       k % 2 = 0 => m[k] = AssistantMessageOf(k \div 2)
  /\ \A k \in DOMAIN m :
       (k % 2 = 1 /\ k > 1) =>
         \A j \in DOMAIN m[k].content :
           /\ m[k].content[j].type = "tool_result"
           /\ \E b \in DOMAIN m[k - 1].content :
                /\ IsToolUseBlock(m[k - 1].content[b])
                /\ m[k - 1].content[b].id = m[k].content[j].tool_use_id

\* C35: the transcript sent on every model call starts with the user query
\* as a user message and strictly alternates user and assistant roles; it is
\* created fresh for each generate call, so it holds no message of another
\* generate call.
C35_FreshAlternatingTranscript ==
  \A i \in CallIndices : OwnTranscript(SentOn(i), i)

C35_Witness ==
  /\ query_no = 2
  /\ pc = "done"
  /\ Len(api_calls) = 3
  /\ api_calls[3].forced
  /\ Len(SentOn(1)) = 1
  /\ Len(SentOn(2)) = 3
  /\ SentOn(2)[3].role = "user"
  /\ Len(SentOn(2)[3].content) = 2
  /\ Len(SentOn(3)) = 4

\* the tool_result blocks of the transcript that answer the tool_use block id
ResultsFor(id) ==
  UNION { { messages[k].content[b] :
              b \in { c \in DOMAIN messages[k].content :
                        messages[k].content[c].tool_use_id = id } } :
          k \in { n \in DOMAIN messages : n > 1 /\ messages[n].role = "user" } }

\* the execute_tool calls of the round that followed model call n
RoundCalls(n) == { j \in DOMAIN executed : executed[j].after_call = n }

\* C31: when the retrieval backend's search raises, the search tool's execute
\* does not catch it: the exception reaches the caller and the tool's
\* last_sources is what it was before the call; inside generate_response the
\* call yields a tool_result flagged is_error with the text of the exception,
\* and the only model call that follows is the forced synthesis, without tools.
C31_BackendRaisePropagates ==
  \A j \in DOMAIN executed :
    executed[j].backend = "raise" =>
      /\ executed[j].raised
      /\ executed[j].slots_after = executed[j].slots_before
      /\ ResultsFor(executed[j].tool_use_id) # {}
      /\ \A r \in ResultsFor(executed[j].tool_use_id) :
           /\ "is_error" \in DOMAIN r
           /\ r.is_error = TRUE
           /\ r.content = <<"Error executing ", "search_course_content", ": ",
                            "ChromaDB crash">>
      /\ pc \in {"synth", "done"}
      /\ \A i \in CallIndices :
           i > executed[j].after_call =>
             /\ i = executed[j].after_call + 1
             /\ api_calls[i].forced
             /\ "tools" \notin DOMAIN api_calls[i].params

C31_Witness ==
  /\ pc = "done"
  /\ outcome = "returned"
  /\ Len(api_calls) = 2
  /\ api_calls[2].forced
  /\ \E j \in DOMAIN executed :
       /\ executed[j].backend = "raise"
       /\ executed[j].raised
       /\ executed[j].slots_before["search_a"] # <<>>
       /\ last_sources["search_a"] = executed[j].slots_before["search_a"]

\* C32: a tool invocation whose name is not registered is not a tool error
\* for generate_response: its tool_result carries the "not found" text and no
\* is_error flag, and unless another tool of the same reply raised, the round
\* counts as one tool round and the next model call is an ordinary loop call
\* that still offers the tools, not the forced synthesis.
C32_UnknownToolIsSoftFailure ==
  \A j \in DOMAIN executed :
    ~executed[j].found =>
      /\ ~executed[j].raised
      /\ ResultsFor(executed[j].tool_use_id) # {}
      /\ \A r \in ResultsFor(executed[j].tool_use_id) :
           /\ "is_error" \notin DOMAIN r
           /\ r.content = <<"Tool '", "nonexistent_tool", "' ", "not found">>
      /\ (\A k \in RoundCalls(executed[j].after_call) : ~executed[k].raised) =>
           /\ round_num = executed[j].after_call
           /\ tool_rounds = executed[j].after_call
           /\ Len(api_calls) = executed[j].after_call => pc = "loop"
           /\ Len(api_calls) > executed[j].after_call =>
                LET next == api_calls[executed[j].after_call + 1]
                IN /\ ~next.forced
                   /\ "tools" \in DOMAIN next.params
                   /\ next.params.tools = tools
                   /\ Len(next.params.messages) = 2 * executed[j].after_call + 1

C32_Witness ==
  /\ pc = "done"
  /\ outcome = "returned"
  /\ Len(api_calls) = 2
  /\ ~api_calls[2].forced
  /\ "tools" \in DOMAIN api_calls[2].params
  /\ tool_rounds = 1
  /\ executed # <<>>
  /\ \A j \in DOMAIN executed : ~executed[j].found

====
